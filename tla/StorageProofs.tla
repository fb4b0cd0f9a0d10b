---------------------------- MODULE StorageProofs ----------------------------
(*****************************************************************************)
(* RecordsAreSound, MoneyIsEarned, LeaversTakeNothing and RedIsTold of       *)
(* module StorageIncentive, for any nodes, files, fees and numbers of        *)
(* replicas.  A maintenance is a chain of loops over nodes and files, each   *)
(* of which may pay, claim and drop.  1. A loop is a FoldLeft.  What holds   *)
(* of the state before the first round, and after a round if before it,      *)
(* holds after the last: proved without an induction theorem from the set    *)
(* of indexes done so far (IndexInduction, FoldsReach), once for every loop. *)
(* 2. The lists of keys and files have no repetitions.  3. Each round, and   *)
(* so each loop, keeps the state Sound, adds up the same money, makes no     *)
(* proof and gives no leaver a file (Keeps); serving files leaves everybody  *)
(* where he was and tells the owners (Grows, Told).  4. Only the settlement  *)
(* rewards, each node once.  5. The invariant, and a lemma per action.       *)
(*****************************************************************************)
EXTENDS StorageIncentive, Sums

-----------------------------------------------------------------------------
(* Folds of sequences. *)

\* the values of a fold at the sets of indexes: the last index is taken last
Folds(g, F, b, S) ==
    g = [T \in SUBSET S |-> IF T = {} THEN b ELSE F[<<Max(T), g[T \ {Max(T)}]>>]]

(* A nonempty set of indexes has a largest element. *)
LEMMA LargestIn ==
    ASSUME NEW n \in Nat, NEW T \in SUBSET (1..n), T # {}
    PROVE  Max(T) \in T
<1> DEFINE D == {n - i : i \in T}
<1>1. \A i \in T : i \in Int /\ n - i \in Nat  OBVIOUS
<1>2. D \subseteq Nat /\ D # {}  BY <1>1
<1>3. PICK d \in D : \A e \in D : d <= e
      <2> HIDE DEF D
      <2> QED  BY <1>2, SmallestNat
<1>4. PICK x \in T : d = n - x  BY <1>3
<1>5. \A y \in T : x >= y
      <2> TAKE y \in T
      <2>1. n - y \in D  OBVIOUS
      <2>2. n - x <= n - y  BY <1>3, <1>4, <2>1
      <2> QED  BY <1>1, <2>2
<1> QED  BY <1>4, <1>5 DEF Max

(* What holds of nothing, and of a set of indexes when it holds of all but one, holds
   of all indexes. *)
LEMMA IndexInduction ==
    ASSUME NEW n \in Nat, NEW Q, {} \in Q,
           \A T \in SUBSET (1..n) : T # {} /\ T \ {Max(T)} \in Q => T \in Q
    PROVE  \A T \in SUBSET (1..n) : T \in Q
<1> DEFINE S == 1..n
           C == {T \in SUBSET S : T \notin Q}
<1>1. ASSUME C # {} PROVE FALSE
      <2>1. C \subseteq SUBSET S /\ IsFiniteSet(S)  BY FS_Interval
      <2>2. PICK T \in C : \A U \in C : U \subseteq T => U = T
            <3> HIDE DEF C, S
            <3> QED  BY <1>1, <2>1, MinimalSubset
      <2>3. T \in SUBSET S /\ T \notin Q /\ T # {}  BY <2>2
      <2>4. Max(T) \in T  BY <2>3, LargestIn
      <2>5. T \ {Max(T)} \notin C  BY <2>2, <2>4
      <2>6. T \ {Max(T)} \in Q  BY <2>3, <2>5
      <2> QED  BY <2>3, <2>6
<1> QED  BY <1>1

(* They are unique: two that agree on all but one index agree. *)
LEMMA FoldsUnique ==
    ASSUME NEW F, NEW b, NEW n \in Nat, NEW S \in SUBSET (1..n),
           NEW g, Folds(g, F, b, S), NEW h, Folds(h, F, b, S)
    PROVE  g = h
<1> DEFINE Q == {T \in SUBSET (1..n) : T \in SUBSET S => g[T] = h[T]}
<1>1. {} \in Q  BY DEF Folds
<1>2. ASSUME NEW T \in SUBSET (1..n), T # {}, T \ {Max(T)} \in Q PROVE T \in Q
      <2>1. SUFFICES ASSUME T \in SUBSET S PROVE g[T] = h[T]  BY <1>2
      <2>2. g[T \ {Max(T)}] = h[T \ {Max(T)}]  BY <1>2, <2>1
      <2>3. g[T] = F[<<Max(T), g[T \ {Max(T)}]>>]  BY <1>2, <2>1 DEF Folds
      <2>4. h[T] = F[<<Max(T), h[T \ {Max(T)}]>>]  BY <1>2, <2>1 DEF Folds
      <2> QED  BY <2>2, <2>3, <2>4
<1>3. \A T \in SUBSET (1..n) : T \in Q
      <2> HIDE DEF Q
      <2> QED  BY <1>1, <1>2, IndexInduction
<1>4. \A T \in SUBSET S : g[T] = h[T]  BY <1>3
<1> QED  BY <1>4 DEF Folds

(* Cut down to a part of the indexes they are the values of the part. *)
LEMMA FoldsBelow ==
    ASSUME NEW F, NEW b, NEW n \in Nat, NEW S \in SUBSET (1..n), NEW g, Folds(g, F, b, S),
           NEW U \in SUBSET S
    PROVE  Folds([T \in SUBSET U |-> g[T]], F, b, U)
<1> DEFINE h == [T \in SUBSET U |-> g[T]]
<1>1. ASSUME NEW T \in SUBSET U
      PROVE  h[T] = IF T = {} THEN b ELSE F[<<Max(T), h[T \ {Max(T)}]>>]
      <2>1. T \in SUBSET S /\ h[T] = g[T]  OBVIOUS
      <2>2. T \ {Max(T)} \in SUBSET U /\ h[T \ {Max(T)}] = g[T \ {Max(T)}]  OBVIOUS
      <2>3. g[{}] = b  BY DEF Folds
      <2>4. T # {} => g[T] = F[<<Max(T), g[T \ {Max(T)}]>>]  BY <2>1 DEF Folds
      <2> HIDE DEF h
      <2> QED  BY <2>1, <2>2, <2>3, <2>4
<1> QED  BY <1>1 DEF Folds

(* And they exist. *)
LEMMA FoldsExist ==
    ASSUME NEW F, NEW b, NEW n \in Nat
    PROVE  \E g : Folds(g, F, b, 1..n)
<1> DEFINE S == 1..n
           C == {T \in SUBSET S : ~ \E g : Folds(g, F, b, T)}
<1>1. ASSUME C # {} PROVE FALSE
      <2>1. C \subseteq SUBSET S /\ IsFiniteSet(S)  BY FS_Interval
      <2>2. PICK T \in C : \A U \in C : U \subseteq T => U = T
            <3> HIDE DEF C, S
            <3> QED  BY <1>1, <2>1, MinimalSubset
      <2> DEFINE G(U) == CHOOSE g : Folds(g, F, b, U)
                 R(s) == s \ {Max(s)}
                 h == [s \in SUBSET T |-> IF s = {} THEN b ELSE F[<<Max(s), G(R(s))[R(s)]>>]]
      <2>3. ASSUME NEW U \in SUBSET T, U # T PROVE Folds(G(U), F, b, U)
            BY <2>2, <2>3
      <2>4. ASSUME NEW s \in SUBSET T, s # {} PROVE R(s) \in SUBSET T /\ R(s) # T /\ R(s) \in SUBSET s
            BY <2>2, <2>4, LargestIn
      <2>5. ASSUME NEW r \in SUBSET T, r # T PROVE h[r] = G(r)[r]
            <3>1. Folds(G(r), F, b, r) /\ r \in SUBSET (1..n)  BY <2>2, <2>3, <2>5
            <3>2. CASE r = {}
                  <4>1. \A g : Folds(g, F, b, r) => g[{}] = b  BY <3>1 DEF Folds
                  <4>2. G(r)[r] = b  BY <3>1, <3>2, <4>1
                  <4> QED  BY <4>2, <3>2
            <3>3. CASE r # {}
                  <4> DEFINE q == R(r)
                  <4>1. q \in SUBSET T /\ q # T /\ q \in SUBSET r /\ q \in SUBSET (1..n)
                        BY <2>2, <2>4, <3>3
                  <4>2. Folds(G(q), F, b, q)  BY <4>1, <2>3
                  <4>3. Folds([s \in SUBSET q |-> G(r)[s]], F, b, q)  BY <3>1, <4>1, FoldsBelow
                  <4>4. G(q) = [s \in SUBSET q |-> G(r)[s]]  BY <4>1, <4>2, <4>3, FoldsUnique
                  <4>5. G(q)[q] = G(r)[q]  BY <4>4
                  <4>6. \A g : Folds(g, F, b, r) => g[r] = F[<<Max(r), g[r \ {Max(r)}]>>]
                        BY <3>1, <3>3 DEF Folds
                  <4>7. G(r)[r] = F[<<Max(r), G(r)[q]>>]  BY <4>6, <3>1
                  <4>8. h[r] = F[<<Max(r), G(q)[q]>>]  BY <3>3
                  <4> QED  BY <4>5, <4>7, <4>8
            <3> QED  BY <3>2, <3>3
      <2>6. ASSUME NEW s \in SUBSET T
            PROVE  h[s] = IF s = {} THEN b ELSE F[<<Max(s), h[R(s)]>>]
            <3>1. CASE s = {}  BY <3>1
            <3>2. CASE s # {}
                  <4>1. h[R(s)] = G(R(s))[R(s)]  BY <3>2, <2>4, <2>5
                  <4>2. h[s] = F[<<Max(s), G(R(s))[R(s)]>>]  BY <3>2
                  <4> HIDE DEF h, G
                  <4> QED  BY <4>1, <4>2, <3>2
            <3> QED  BY <3>1, <3>2
      <2>7. Folds(h, F, b, T)
            <3>1. h = [s \in SUBSET T |-> h[s]]  OBVIOUS
            <3>2. [s \in SUBSET T |-> h[s]]
                    = [s \in SUBSET T |-> IF s = {} THEN b ELSE F[<<Max(s), h[R(s)]>>]]
                  <4> HIDE DEF h
                  <4> QED  BY <2>6
            <3> HIDE DEF h
            <3> QED  BY <3>1, <3>2 DEF Folds
      <2> QED  BY <2>2, <2>7
<1> QED  BY <1>1

(* What a fold reaches: Q relates the indexes done to the value. *)
LEMMA FoldsReach ==
    ASSUME NEW n \in Nat, NEW b, NEW F, NEW Q, <<{}, b>> \in Q,
           \A T \in SUBSET (1..n), i \in 1..n : \A r :
               i \notin T /\ <<T, r>> \in Q => <<T \cup {i}, F[<<i, r>>]>> \in Q
    PROVE  \E g : Folds(g, F, b, 1..n) /\ \A T \in SUBSET (1..n) : <<T, g[T]>> \in Q
<1>1. PICK g : Folds(g, F, b, 1..n)  BY FoldsExist
<1> DEFINE I == {T \in SUBSET (1..n) : <<T, g[T]>> \in Q}
<1>2. {} \in I  BY <1>1 DEF Folds
<1>3. ASSUME NEW T \in SUBSET (1..n), T # {}, T \ {Max(T)} \in I PROVE T \in I
      <2> DEFINE U == T \ {Max(T)}
      <2>1. Max(T) \in T  BY <1>3, LargestIn
      <2>2. g[T] = F[<<Max(T), g[U]>>]  BY <1>1, <1>3 DEF Folds
      <2>3. U \in SUBSET (1..n) /\ Max(T) \in 1..n /\ Max(T) \notin U /\ T = U \cup {Max(T)}  BY <2>1
      <2>4. <<U, g[U]>> \in Q  BY <1>3
      <2> HIDE DEF U
      <2>5. <<U \cup {Max(T)}, F[<<Max(T), g[U]>>]>> \in Q  BY <2>3, <2>4
      <2>6. <<T, g[T]>> \in Q  BY <2>2, <2>3, <2>5
      <2> QED  BY <2>6
<1>4. \A T \in SUBSET (1..n) : T \in I
      <2> HIDE DEF I
      <2> QED  BY <1>2, <1>3, IndexInduction
<1> QED  BY <1>1, <1>4

(* A function on the sets of indexes that follows F wherever Q holds stays in Q. *)
LEMMA Follows ==
    ASSUME NEW n \in Nat, NEW F, NEW Q, NEW h, <<{}, h[{}]>> \in Q,
           \A T \in SUBSET (1..n), i \in 1..n : \A r :
               i \notin T /\ <<T, r>> \in Q => <<T \cup {i}, F[<<i, r>>]>> \in Q,
           \A T \in SUBSET (1..n) : T # {} /\ <<T \ {Max(T)}, h[T \ {Max(T)}]>> \in Q
               => h[T] = F[<<Max(T), h[T \ {Max(T)}]>>]
    PROVE  <<1..n, h[1..n]>> \in Q
<1> DEFINE I == {T \in SUBSET (1..n) : <<T, h[T]>> \in Q}
<1>1. {} \in I  OBVIOUS
<1>2. ASSUME NEW T \in SUBSET (1..n), T # {}, T \ {Max(T)} \in I PROVE T \in I
      <2> DEFINE U == T \ {Max(T)}
                 m == Max(T)
      <2>1. m \in T  BY <1>2, LargestIn
      <2>2. U \in SUBSET (1..n) /\ m \in 1..n /\ m \notin U /\ T = U \cup {m}  BY <2>1
      <2>3. <<U, h[U]>> \in Q  BY <1>2
      <2>4. h[T] = F[<<m, h[U]>>]  BY <1>2, <2>3
      <2> HIDE DEF U, m
      <2>5. <<U \cup {m}, F[<<m, h[U]>>]>> \in Q  BY <2>2, <2>3
      <2>6. <<T, h[T]>> \in Q  BY <2>2, <2>4, <2>5
      <2> QED  BY <2>6
<1>3. 1..n \in I
      <2> HIDE DEF I
      <2> QED  BY <1>1, <1>2, IndexInduction
<1> QED  BY <1>3

\* the files of a leaver, as Finalized hands them on
Handed(s, n) ==
    ForEach(LAMBDA r, c : Notify(HandedOn(r, n, c), c), s, s.node[n].assigned \cap Stored(s))

(* The fold of SettleEpoch. *)
LEMMA SettleFold ==
    ASSUME NEW s, NEW X, s.order \in Seq(X), NEW Q, <<{}, s>> \in Q,
           \A T \in SUBSET (DOMAIN s.order), i \in DOMAIN s.order : \A r :
               i \notin T /\ <<T, r>> \in Q => <<T \cup {i}, SettledNode(r, s.order[i])>> \in Q
    PROVE  <<DOMAIN s.order, FoldLeft(SettledNode, s, s.order)>> \in Q
<1> DEFINE seq == s.order
           k == Len(seq)
           D == {q[2] : q \in Q}
           Op(r, x) == SettledNode(r, x)
           F == [p \in (1..k) \X D |-> Op(p[2], seq[p[1]])]
           It(h) == h = [T \in SUBSET DOMAIN seq |->
                           IF T = {} THEN s ELSE Op(h[T \ {Max(T)}], seq[Max(T)])]
           h == CHOOSE f : It(f)
<1>1. k \in Nat /\ DOMAIN seq = 1..k  OBVIOUS
<1>2. \A T \in SUBSET (1..k), i \in 1..k : \A r :
        i \notin T /\ <<T, r>> \in Q => <<T \cup {i}, Op(r, seq[i])>> \in Q
      BY <1>1
<1>3. FoldLeft(SettledNode, s, s.order) = h[DOMAIN seq]
      BY DEF FoldLeft, MapThenFoldSet
<1> HIDE DEF Op, seq
<1>4. \A T, r, i : <<T, r>> \in Q /\ i \in 1..k => r \in D /\ F[<<i, r>>] = Op(r, seq[i])
      <2> TAKE T, r, i
      <2> HAVE <<T, r>> \in Q /\ i \in 1..k
      <2>1. r = <<T, r>>[2]  OBVIOUS
      <2>2. r \in D  BY <2>1
      <2> HIDE DEF D
      <2> QED  BY <2>2
<1> HIDE DEF k, D, F
<1>5. \A T \in SUBSET (1..k), i \in 1..k : \A r :
        i \notin T /\ <<T, r>> \in Q => <<T \cup {i}, F[<<i, r>>]>> \in Q
      <2> TAKE T \in SUBSET (1..k), i \in 1..k
      <2> TAKE r
      <2> HAVE i \notin T /\ <<T, r>> \in Q
      <2>1. <<T \cup {i}, Op(r, seq[i])>> \in Q  BY <1>2
      <2>2. F[<<i, r>>] = Op(r, seq[i])  BY <1>4
      <2> QED  BY <2>1, <2>2
<1>6. PICK g : Folds(g, F, s, 1..k) /\ \A T \in SUBSET (1..k) : <<T, g[T]>> \in Q
      BY <1>1, <1>5, FoldsReach
<1>7. It(g)
      <2>1. ASSUME NEW T \in SUBSET (1..k), T # {}
            PROVE  F[<<Max(T), g[T \ {Max(T)}]>>] = Op(g[T \ {Max(T)}], seq[Max(T)])
            <3>1. Max(T) \in 1..k /\ T \ {Max(T)} \in SUBSET (1..k)  BY <1>1, <2>1, LargestIn
            <3>2. <<T \ {Max(T)}, g[T \ {Max(T)}]>> \in Q  BY <1>6, <3>1
            <3> QED  BY <1>4, <3>1, <3>2
      <2> QED  BY <1>1, <1>6, <2>1 DEF Folds
<1>8. It(h)  BY <1>7
<1> HIDE DEF h
<1>9. <<{}, h[{}]>> \in Q  BY <1>8
<1>10. ASSUME NEW T \in SUBSET (1..k), T # {}, <<T \ {Max(T)}, h[T \ {Max(T)}]>> \in Q
       PROVE  h[T] = F[<<Max(T), h[T \ {Max(T)}]>>]
      <2>1. Max(T) \in 1..k  BY <1>1, <1>10, LargestIn
      <2>2. h[T] = Op(h[T \ {Max(T)}], seq[Max(T)])  BY <1>1, <1>8, <1>10
      <2>3. F[<<Max(T), h[T \ {Max(T)}]>>] = Op(h[T \ {Max(T)}], seq[Max(T)])
            BY <1>4, <1>10, <2>1
      <2> QED  BY <2>2, <2>3
<1>11. <<1..k, h[1..k]>> \in Q
      <2> HIDE DEF It
      <2> QED  BY <1>1, <1>5, <1>9, <1>10, Follows
<1>12. <<DOMAIN seq, FoldLeft(SettledNode, s, s.order)>> \in Q  BY <1>1, <1>3, <1>11
<1> QED  BY <1>12 DEF seq

(* The fold of Replenished. *)
LEMMA RefillFold ==
    ASSUME NEW s, NEW X, s.order \in Seq(X), NEW c, NEW goal, NEW fee,
           NEW Q, <<{}, s>> \in Q,
           \A T \in SUBSET (DOMAIN s.order), i \in DOMAIN s.order : \A r :
               i \notin T /\ <<T, r>> \in Q =>
                  /\ <<T \cup {i}, PaidClaim(r, s.order[i], c, fee)>> \in Q
                  /\ <<T \cup {i}, r>> \in Q
    PROVE  <<DOMAIN s.order, Replenished(s, c, goal, fee)>> \in Q
<1> DEFINE seq == s.order
           k == Len(seq)
           D == {q[2] : q \in Q}
           up == Cardinality({n \in s.file[c].replicas : Up(s, n)})
           Op(r, x) == IF x \in FirstOf(Candidates(s, c), goal - up, s.order)
                       THEN PaidClaim(r, x, c, fee) ELSE r
           F == [p \in (1..k) \X D |-> Op(p[2], seq[p[1]])]
           It(h) == h = [T \in SUBSET DOMAIN seq |->
                           IF T = {} THEN s ELSE Op(h[T \ {Max(T)}], seq[Max(T)])]
           h == CHOOSE f : It(f)
<1>1. k \in Nat /\ DOMAIN seq = 1..k  OBVIOUS
<1>2. \A T \in SUBSET (1..k), i \in 1..k : \A r :
        i \notin T /\ <<T, r>> \in Q => <<T \cup {i}, Op(r, seq[i])>> \in Q
      BY <1>1
<1>3. Replenished(s, c, goal, fee) = h[DOMAIN seq]
      BY DEF Replenished, FoldLeft, MapThenFoldSet
<1> HIDE DEF Op, seq
<1>4. \A T, r, i : <<T, r>> \in Q /\ i \in 1..k => r \in D /\ F[<<i, r>>] = Op(r, seq[i])
      <2> TAKE T, r, i
      <2> HAVE <<T, r>> \in Q /\ i \in 1..k
      <2>1. r = <<T, r>>[2]  OBVIOUS
      <2>2. r \in D  BY <2>1
      <2> HIDE DEF D
      <2> QED  BY <2>2
<1> HIDE DEF k, D, F
<1>5. \A T \in SUBSET (1..k), i \in 1..k : \A r :
        i \notin T /\ <<T, r>> \in Q => <<T \cup {i}, F[<<i, r>>]>> \in Q
      <2> TAKE T \in SUBSET (1..k), i \in 1..k
      <2> TAKE r
      <2> HAVE i \notin T /\ <<T, r>> \in Q
      <2>1. <<T \cup {i}, Op(r, seq[i])>> \in Q  BY <1>2
      <2>2. F[<<i, r>>] = Op(r, seq[i])  BY <1>4
      <2> QED  BY <2>1, <2>2
<1>6. PICK g : Folds(g, F, s, 1..k) /\ \A T \in SUBSET (1..k) : <<T, g[T]>> \in Q
      BY <1>1, <1>5, FoldsReach
<1>7. It(g)
      <2>1. ASSUME NEW T \in SUBSET (1..k), T # {}
            PROVE  F[<<Max(T), g[T \ {Max(T)}]>>] = Op(g[T \ {Max(T)}], seq[Max(T)])
            <3>1. Max(T) \in 1..k /\ T \ {Max(T)} \in SUBSET (1..k)  BY <1>1, <2>1, LargestIn
            <3>2. <<T \ {Max(T)}, g[T \ {Max(T)}]>> \in Q  BY <1>6, <3>1
            <3> QED  BY <1>4, <3>1, <3>2
      <2> QED  BY <1>1, <1>6, <2>1 DEF Folds
<1>8. It(h)  BY <1>7
<1> HIDE DEF h
<1>9. <<{}, h[{}]>> \in Q  BY <1>8
<1>10. ASSUME NEW T \in SUBSET (1..k), T # {}, <<T \ {Max(T)}, h[T \ {Max(T)}]>> \in Q
       PROVE  h[T] = F[<<Max(T), h[T \ {Max(T)}]>>]
      <2>1. Max(T) \in 1..k  BY <1>1, <1>10, LargestIn
      <2>2. h[T] = Op(h[T \ {Max(T)}], seq[Max(T)])  BY <1>1, <1>8, <1>10
      <2>3. F[<<Max(T), h[T \ {Max(T)}]>>] = Op(h[T \ {Max(T)}], seq[Max(T)])
            BY <1>4, <1>10, <2>1
      <2> QED  BY <2>2, <2>3
<1>11. <<1..k, h[1..k]>> \in Q
      <2> HIDE DEF It
      <2> QED  BY <1>1, <1>5, <1>9, <1>10, Follows
<1>12. <<DOMAIN seq, Replenished(s, c, goal, fee)>> \in Q  BY <1>1, <1>3, <1>11
<1> QED  BY <1>12 DEF seq

(* The fold of Finalized. *)
LEMMA HandOnFold ==
    ASSUME NEW s, NEW n, NEW X, SetToSeq(s.node[n].assigned \cap Stored(s)) \in Seq(X),
           NEW Q, <<{}, s>> \in Q,
           \A T \in SUBSET (DOMAIN SetToSeq(s.node[n].assigned \cap Stored(s))),
              i \in DOMAIN SetToSeq(s.node[n].assigned \cap Stored(s)) : \A r :
               i \notin T /\ <<T, r>> \in Q =>
                  LET c == SetToSeq(s.node[n].assigned \cap Stored(s))[i]
                  IN  <<T \cup {i}, Notify(HandedOn(r, n, c), c)>> \in Q
    PROVE  <<DOMAIN SetToSeq(s.node[n].assigned \cap Stored(s)), Handed(s, n)>> \in Q
<1> DEFINE seq == SetToSeq(s.node[n].assigned \cap Stored(s))
           k == Len(seq)
           D == {q[2] : q \in Q}
           Op(r, x) == Notify(HandedOn(r, n, x), x)
           F == [p \in (1..k) \X D |-> Op(p[2], seq[p[1]])]
           It(h) == h = [T \in SUBSET DOMAIN seq |->
                           IF T = {} THEN s ELSE Op(h[T \ {Max(T)}], seq[Max(T)])]
           h == CHOOSE f : It(f)
<1>1. k \in Nat /\ DOMAIN seq = 1..k  OBVIOUS
<1>2. \A T \in SUBSET (1..k), i \in 1..k : \A r :
        i \notin T /\ <<T, r>> \in Q => <<T \cup {i}, Op(r, seq[i])>> \in Q
      BY <1>1
<1>3. Handed(s, n) = h[DOMAIN seq]
      BY DEF Handed, ForEach, FoldLeft, MapThenFoldSet
<1> HIDE DEF Op, seq
<1>4. \A T, r, i : <<T, r>> \in Q /\ i \in 1..k => r \in D /\ F[<<i, r>>] = Op(r, seq[i])
      <2> TAKE T, r, i
      <2> HAVE <<T, r>> \in Q /\ i \in 1..k
      <2>1. r = <<T, r>>[2]  OBVIOUS
      <2>2. r \in D  BY <2>1
      <2> HIDE DEF D
      <2> QED  BY <2>2
<1> HIDE DEF k, D, F
<1>5. \A T \in SUBSET (1..k), i \in 1..k : \A r :
        i \notin T /\ <<T, r>> \in Q => <<T \cup {i}, F[<<i, r>>]>> \in Q
      <2> TAKE T \in SUBSET (1..k), i \in 1..k
      <2> TAKE r
      <2> HAVE i \notin T /\ <<T, r>> \in Q
      <2>1. <<T \cup {i}, Op(r, seq[i])>> \in Q  BY <1>2
      <2>2. F[<<i, r>>] = Op(r, seq[i])  BY <1>4
      <2> QED  BY <2>1, <2>2
<1>6. PICK g : Folds(g, F, s, 1..k) /\ \A T \in SUBSET (1..k) : <<T, g[T]>> \in Q
      BY <1>1, <1>5, FoldsReach
<1>7. It(g)
      <2>1. ASSUME NEW T \in SUBSET (1..k), T # {}
            PROVE  F[<<Max(T), g[T \ {Max(T)}]>>] = Op(g[T \ {Max(T)}], seq[Max(T)])
            <3>1. Max(T) \in 1..k /\ T \ {Max(T)} \in SUBSET (1..k)  BY <1>1, <2>1, LargestIn
            <3>2. <<T \ {Max(T)}, g[T \ {Max(T)}]>> \in Q  BY <1>6, <3>1
            <3> QED  BY <1>4, <3>1, <3>2
      <2> QED  BY <1>1, <1>6, <2>1 DEF Folds
<1>8. It(h)  BY <1>7
<1> HIDE DEF h
<1>9. <<{}, h[{}]>> \in Q  BY <1>8
<1>10. ASSUME NEW T \in SUBSET (1..k), T # {}, <<T \ {Max(T)}, h[T \ {Max(T)}]>> \in Q
       PROVE  h[T] = F[<<Max(T), h[T \ {Max(T)}]>>]
      <2>1. Max(T) \in 1..k  BY <1>1, <1>10, LargestIn
      <2>2. h[T] = Op(h[T \ {Max(T)}], seq[Max(T)])  BY <1>1, <1>8, <1>10
      <2>3. F[<<Max(T), h[T \ {Max(T)}]>>] = Op(h[T \ {Max(T)}], seq[Max(T)])
            BY <1>4, <1>10, <2>1
      <2> QED  BY <2>2, <2>3
<1>11. <<1..k, h[1..k]>> \in Q
      <2> HIDE DEF It
      <2> QED  BY <1>1, <1>5, <1>9, <1>10, Follows
<1>12. <<DOMAIN seq, Handed(s, n)>> \in Q  BY <1>1, <1>3, <1>11
<1> QED  BY <1>12 DEF seq

(* The fold of FinalizeExits. *)
LEMMA LeaveFold ==
    ASSUME NEW s, NEW X, s.order \in Seq(X), NEW Q, <<{}, s>> \in Q,
           \A T \in SUBSET (DOMAIN s.order), i \in DOMAIN s.order : \A r :
               i \notin T /\ <<T, r>> \in Q => <<T \cup {i}, Finalized(r, s.order[i])>> \in Q
    PROVE  <<DOMAIN s.order, FinalizeExits(s)>> \in Q
<1> DEFINE seq == s.order
           k == Len(seq)
           D == {q[2] : q \in Q}
           Op(r, x) == Finalized(r, x)
           F == [p \in (1..k) \X D |-> Op(p[2], seq[p[1]])]
           It(h) == h = [T \in SUBSET DOMAIN seq |->
                           IF T = {} THEN s ELSE Op(h[T \ {Max(T)}], seq[Max(T)])]
           h == CHOOSE f : It(f)
<1>1. k \in Nat /\ DOMAIN seq = 1..k  OBVIOUS
<1>2. \A T \in SUBSET (1..k), i \in 1..k : \A r :
        i \notin T /\ <<T, r>> \in Q => <<T \cup {i}, Op(r, seq[i])>> \in Q
      BY <1>1
<1>3. FinalizeExits(s) = h[DOMAIN seq]
      BY DEF FinalizeExits, FoldLeft, MapThenFoldSet
<1> HIDE DEF Op, seq
<1>4. \A T, r, i : <<T, r>> \in Q /\ i \in 1..k => r \in D /\ F[<<i, r>>] = Op(r, seq[i])
      <2> TAKE T, r, i
      <2> HAVE <<T, r>> \in Q /\ i \in 1..k
      <2>1. r = <<T, r>>[2]  OBVIOUS
      <2>2. r \in D  BY <2>1
      <2> HIDE DEF D
      <2> QED  BY <2>2
<1> HIDE DEF k, D, F
<1>5. \A T \in SUBSET (1..k), i \in 1..k : \A r :
        i \notin T /\ <<T, r>> \in Q => <<T \cup {i}, F[<<i, r>>]>> \in Q
      <2> TAKE T \in SUBSET (1..k), i \in 1..k
      <2> TAKE r
      <2> HAVE i \notin T /\ <<T, r>> \in Q
      <2>1. <<T \cup {i}, Op(r, seq[i])>> \in Q  BY <1>2
      <2>2. F[<<i, r>>] = Op(r, seq[i])  BY <1>4
      <2> QED  BY <2>1, <2>2
<1>6. PICK g : Folds(g, F, s, 1..k) /\ \A T \in SUBSET (1..k) : <<T, g[T]>> \in Q
      BY <1>1, <1>5, FoldsReach
<1>7. It(g)
      <2>1. ASSUME NEW T \in SUBSET (1..k), T # {}
            PROVE  F[<<Max(T), g[T \ {Max(T)}]>>] = Op(g[T \ {Max(T)}], seq[Max(T)])
            <3>1. Max(T) \in 1..k /\ T \ {Max(T)} \in SUBSET (1..k)  BY <1>1, <2>1, LargestIn
            <3>2. <<T \ {Max(T)}, g[T \ {Max(T)}]>> \in Q  BY <1>6, <3>1
            <3> QED  BY <1>4, <3>1, <3>2
      <2> QED  BY <1>1, <1>6, <2>1 DEF Folds
<1>8. It(h)  BY <1>7
<1> HIDE DEF h
<1>9. <<{}, h[{}]>> \in Q  BY <1>8
<1>10. ASSUME NEW T \in SUBSET (1..k), T # {}, <<T \ {Max(T)}, h[T \ {Max(T)}]>> \in Q
       PROVE  h[T] = F[<<Max(T), h[T \ {Max(T)}]>>]
      <2>1. Max(T) \in 1..k  BY <1>1, <1>10, LargestIn
      <2>2. h[T] = Op(h[T \ {Max(T)}], seq[Max(T)])  BY <1>1, <1>8, <1>10
      <2>3. F[<<Max(T), h[T \ {Max(T)}]>>] = Op(h[T \ {Max(T)}], seq[Max(T)])
            BY <1>4, <1>10, <2>1
      <2> QED  BY <2>2, <2>3
<1>11. <<1..k, h[1..k]>> \in Q
      <2> HIDE DEF It
      <2> QED  BY <1>1, <1>5, <1>9, <1>10, Follows
<1>12. <<DOMAIN seq, FinalizeExits(s)>> \in Q  BY <1>1, <1>3, <1>11
<1> QED  BY <1>12 DEF seq

(* The fold of ScanOffline. *)
LEMMA NotifyFold ==
    ASSUME NEW s, NEW S, NEW X, SetToSeq(S) \in Seq(X), NEW Q, <<{}, s>> \in Q,
           \A T \in SUBSET (DOMAIN SetToSeq(S)), i \in DOMAIN SetToSeq(S) : \A r :
               i \notin T /\ <<T, r>> \in Q => <<T \cup {i}, Notify(r, SetToSeq(S)[i])>> \in Q
    PROVE  <<DOMAIN SetToSeq(S), ForEach(Notify, s, S)>> \in Q
<1> DEFINE seq == SetToSeq(S)
           k == Len(seq)
           D == {q[2] : q \in Q}
           Op(r, x) == Notify(r, x)
           F == [p \in (1..k) \X D |-> Op(p[2], seq[p[1]])]
           It(h) == h = [T \in SUBSET DOMAIN seq |->
                           IF T = {} THEN s ELSE Op(h[T \ {Max(T)}], seq[Max(T)])]
           h == CHOOSE f : It(f)
<1>1. k \in Nat /\ DOMAIN seq = 1..k  OBVIOUS
<1>2. \A T \in SUBSET (1..k), i \in 1..k : \A r :
        i \notin T /\ <<T, r>> \in Q => <<T \cup {i}, Op(r, seq[i])>> \in Q
      BY <1>1
<1>3. ForEach(Notify, s, S) = h[DOMAIN seq]
      BY DEF ForEach, FoldLeft, MapThenFoldSet
<1> HIDE DEF Op, seq
<1>4. \A T, r, i : <<T, r>> \in Q /\ i \in 1..k => r \in D /\ F[<<i, r>>] = Op(r, seq[i])
      <2> TAKE T, r, i
      <2> HAVE <<T, r>> \in Q /\ i \in 1..k
      <2>1. r = <<T, r>>[2]  OBVIOUS
      <2>2. r \in D  BY <2>1
      <2> HIDE DEF D
      <2> QED  BY <2>2
<1> HIDE DEF k, D, F
<1>5. \A T \in SUBSET (1..k), i \in 1..k : \A r :
        i \notin T /\ <<T, r>> \in Q => <<T \cup {i}, F[<<i, r>>]>> \in Q
      <2> TAKE T \in SUBSET (1..k), i \in 1..k
      <2> TAKE r
      <2> HAVE i \notin T /\ <<T, r>> \in Q
      <2>1. <<T \cup {i}, Op(r, seq[i])>> \in Q  BY <1>2
      <2>2. F[<<i, r>>] = Op(r, seq[i])  BY <1>4
      <2> QED  BY <2>1, <2>2
<1>6. PICK g : Folds(g, F, s, 1..k) /\ \A T \in SUBSET (1..k) : <<T, g[T]>> \in Q
      BY <1>1, <1>5, FoldsReach
<1>7. It(g)
      <2>1. ASSUME NEW T \in SUBSET (1..k), T # {}
            PROVE  F[<<Max(T), g[T \ {Max(T)}]>>] = Op(g[T \ {Max(T)}], seq[Max(T)])
            <3>1. Max(T) \in 1..k /\ T \ {Max(T)} \in SUBSET (1..k)  BY <1>1, <2>1, LargestIn
            <3>2. <<T \ {Max(T)}, g[T \ {Max(T)}]>> \in Q  BY <1>6, <3>1
            <3> QED  BY <1>4, <3>1, <3>2
      <2> QED  BY <1>1, <1>6, <2>1 DEF Folds
<1>8. It(h)  BY <1>7
<1> HIDE DEF h
<1>9. <<{}, h[{}]>> \in Q  BY <1>8
<1>10. ASSUME NEW T \in SUBSET (1..k), T # {}, <<T \ {Max(T)}, h[T \ {Max(T)}]>> \in Q
       PROVE  h[T] = F[<<Max(T), h[T \ {Max(T)}]>>]
      <2>1. Max(T) \in 1..k  BY <1>1, <1>10, LargestIn
      <2>2. h[T] = Op(h[T \ {Max(T)}], seq[Max(T)])  BY <1>1, <1>8, <1>10
      <2>3. F[<<Max(T), h[T \ {Max(T)}]>>] = Op(h[T \ {Max(T)}], seq[Max(T)])
            BY <1>4, <1>10, <2>1
      <2> QED  BY <2>2, <2>3
<1>11. <<1..k, h[1..k]>> \in Q
      <2> HIDE DEF It
      <2> QED  BY <1>1, <1>5, <1>9, <1>10, Follows
<1>12. <<DOMAIN seq, ForEach(Notify, s, S)>> \in Q  BY <1>1, <1>3, <1>11
<1> QED  BY <1>12 DEF seq

(* The fold of ProtectHot. *)
LEMMA ProtectFold ==
    ASSUME NEW s, NEW cids, NEW X, SetToSeq(cids \cap Stored(s)) \in Seq(X), NEW Q, <<{}, s>> \in Q,
           \A T \in SUBSET (DOMAIN SetToSeq(cids \cap Stored(s))),
              i \in DOMAIN SetToSeq(cids \cap Stored(s)) : \A r :
               i \notin T /\ <<T, r>> \in Q =>
                  LET c == SetToSeq(cids \cap Stored(s))[i]
                  IN  <<T \cup {i}, Replenished(r, c, HotReplicas, HotFee)>> \in Q
    PROVE  <<DOMAIN SetToSeq(cids \cap Stored(s)), ProtectHot(s, cids)>> \in Q
<1> DEFINE seq == SetToSeq(cids \cap Stored(s))
           k == Len(seq)
           D == {q[2] : q \in Q}
           Op(r, x) == Replenished(r, x, HotReplicas, HotFee)
           F == [p \in (1..k) \X D |-> Op(p[2], seq[p[1]])]
           It(h) == h = [T \in SUBSET DOMAIN seq |->
                           IF T = {} THEN s ELSE Op(h[T \ {Max(T)}], seq[Max(T)])]
           h == CHOOSE f : It(f)
<1>1. k \in Nat /\ DOMAIN seq = 1..k  OBVIOUS
<1>2. \A T \in SUBSET (1..k), i \in 1..k : \A r :
        i \notin T /\ <<T, r>> \in Q => <<T \cup {i}, Op(r, seq[i])>> \in Q
      BY <1>1
<1>3. ProtectHot(s, cids) = h[DOMAIN seq]
      BY DEF ProtectHot, ForEach, FoldLeft, MapThenFoldSet
<1> HIDE DEF Op, seq
<1>4. \A T, r, i : <<T, r>> \in Q /\ i \in 1..k => r \in D /\ F[<<i, r>>] = Op(r, seq[i])
      <2> TAKE T, r, i
      <2> HAVE <<T, r>> \in Q /\ i \in 1..k
      <2>1. r = <<T, r>>[2]  OBVIOUS
      <2>2. r \in D  BY <2>1
      <2> HIDE DEF D
      <2> QED  BY <2>2
<1> HIDE DEF k, D, F
<1>5. \A T \in SUBSET (1..k), i \in 1..k : \A r :
        i \notin T /\ <<T, r>> \in Q => <<T \cup {i}, F[<<i, r>>]>> \in Q
      <2> TAKE T \in SUBSET (1..k), i \in 1..k
      <2> TAKE r
      <2> HAVE i \notin T /\ <<T, r>> \in Q
      <2>1. <<T \cup {i}, Op(r, seq[i])>> \in Q  BY <1>2
      <2>2. F[<<i, r>>] = Op(r, seq[i])  BY <1>4
      <2> QED  BY <2>1, <2>2
<1>6. PICK g : Folds(g, F, s, 1..k) /\ \A T \in SUBSET (1..k) : <<T, g[T]>> \in Q
      BY <1>1, <1>5, FoldsReach
<1>7. It(g)
      <2>1. ASSUME NEW T \in SUBSET (1..k), T # {}
            PROVE  F[<<Max(T), g[T \ {Max(T)}]>>] = Op(g[T \ {Max(T)}], seq[Max(T)])
            <3>1. Max(T) \in 1..k /\ T \ {Max(T)} \in SUBSET (1..k)  BY <1>1, <2>1, LargestIn
            <3>2. <<T \ {Max(T)}, g[T \ {Max(T)}]>> \in Q  BY <1>6, <3>1
            <3> QED  BY <1>4, <3>1, <3>2
      <2> QED  BY <1>1, <1>6, <2>1 DEF Folds
<1>8. It(h)  BY <1>7
<1> HIDE DEF h
<1>9. <<{}, h[{}]>> \in Q  BY <1>8
<1>10. ASSUME NEW T \in SUBSET (1..k), T # {}, <<T \ {Max(T)}, h[T \ {Max(T)}]>> \in Q
       PROVE  h[T] = F[<<Max(T), h[T \ {Max(T)}]>>]
      <2>1. Max(T) \in 1..k  BY <1>1, <1>10, LargestIn
      <2>2. h[T] = Op(h[T \ {Max(T)}], seq[Max(T)])  BY <1>1, <1>8, <1>10
      <2>3. F[<<Max(T), h[T \ {Max(T)}]>>] = Op(h[T \ {Max(T)}], seq[Max(T)])
            BY <1>4, <1>10, <2>1
      <2> QED  BY <2>2, <2>3
<1>11. <<1..k, h[1..k]>> \in Q
      <2> HIDE DEF It
      <2> QED  BY <1>1, <1>5, <1>9, <1>10, Follows
<1>12. <<DOMAIN seq, ProtectHot(s, cids)>> \in Q  BY <1>1, <1>3, <1>11
<1> QED  BY <1>12 DEF seq

(* The fold of ReassignEndangered. *)
LEMMA ReassignFold ==
    ASSUME NEW s, NEW X, SetToSeq(Endangered(s)) \in Seq(X), NEW Q, <<{}, s>> \in Q,
           \A T \in SUBSET (DOMAIN SetToSeq(Endangered(s))),
              i \in DOMAIN SetToSeq(Endangered(s)) : \A r :
               i \notin T /\ <<T, r>> \in Q =>
                  LET c == SetToSeq(Endangered(s))[i]
                  IN  <<T \cup {i}, Replenished(Notify(r, c), c, MinHealthy, ReassignFee)>> \in Q
    PROVE  <<DOMAIN SetToSeq(Endangered(s)), ReassignEndangered(s)>> \in Q
<1> DEFINE seq == SetToSeq(Endangered(s))
           k == Len(seq)
           D == {q[2] : q \in Q}
           Op(r, x) == Replenished(Notify(r, x), x, MinHealthy, ReassignFee)
           F == [p \in (1..k) \X D |-> Op(p[2], seq[p[1]])]
           It(h) == h = [T \in SUBSET DOMAIN seq |->
                           IF T = {} THEN s ELSE Op(h[T \ {Max(T)}], seq[Max(T)])]
           h == CHOOSE f : It(f)
<1>1. k \in Nat /\ DOMAIN seq = 1..k  OBVIOUS
<1>2. \A T \in SUBSET (1..k), i \in 1..k : \A r :
        i \notin T /\ <<T, r>> \in Q => <<T \cup {i}, Op(r, seq[i])>> \in Q
      BY <1>1
<1>3. ReassignEndangered(s) = h[DOMAIN seq]
      BY DEF ReassignEndangered, ForEach, FoldLeft, MapThenFoldSet
<1> HIDE DEF Op, seq
<1>4. \A T, r, i : <<T, r>> \in Q /\ i \in 1..k => r \in D /\ F[<<i, r>>] = Op(r, seq[i])
      <2> TAKE T, r, i
      <2> HAVE <<T, r>> \in Q /\ i \in 1..k
      <2>1. r = <<T, r>>[2]  OBVIOUS
      <2>2. r \in D  BY <2>1
      <2> HIDE DEF D
      <2> QED  BY <2>2
<1> HIDE DEF k, D, F
<1>5. \A T \in SUBSET (1..k), i \in 1..k : \A r :
        i \notin T /\ <<T, r>> \in Q => <<T \cup {i}, F[<<i, r>>]>> \in Q
      <2> TAKE T \in SUBSET (1..k), i \in 1..k
      <2> TAKE r
      <2> HAVE i \notin T /\ <<T, r>> \in Q
      <2>1. <<T \cup {i}, Op(r, seq[i])>> \in Q  BY <1>2
      <2>2. F[<<i, r>>] = Op(r, seq[i])  BY <1>4
      <2> QED  BY <2>1, <2>2
<1>6. PICK g : Folds(g, F, s, 1..k) /\ \A T \in SUBSET (1..k) : <<T, g[T]>> \in Q
      BY <1>1, <1>5, FoldsReach
<1>7. It(g)
      <2>1. ASSUME NEW T \in SUBSET (1..k), T # {}
            PROVE  F[<<Max(T), g[T \ {Max(T)}]>>] = Op(g[T \ {Max(T)}], seq[Max(T)])
            <3>1. Max(T) \in 1..k /\ T \ {Max(T)} \in SUBSET (1..k)  BY <1>1, <2>1, LargestIn
            <3>2. <<T \ {Max(T)}, g[T \ {Max(T)}]>> \in Q  BY <1>6, <3>1
            <3> QED  BY <1>4, <3>1, <3>2
      <2> QED  BY <1>1, <1>6, <2>1 DEF Folds
<1>8. It(h)  BY <1>7
<1> HIDE DEF h
<1>9. <<{}, h[{}]>> \in Q  BY <1>8
<1>10. ASSUME NEW T \in SUBSET (1..k), T # {}, <<T \ {Max(T)}, h[T \ {Max(T)}]>> \in Q
       PROVE  h[T] = F[<<Max(T), h[T \ {Max(T)}]>>]
      <2>1. Max(T) \in 1..k  BY <1>1, <1>10, LargestIn
      <2>2. h[T] = Op(h[T \ {Max(T)}], seq[Max(T)])  BY <1>1, <1>8, <1>10
      <2>3. F[<<Max(T), h[T \ {Max(T)}]>>] = Op(h[T \ {Max(T)}], seq[Max(T)])
            BY <1>4, <1>10, <2>1
      <2> QED  BY <2>2, <2>3
<1>11. <<1..k, h[1..k]>> \in Q
      <2> HIDE DEF It
      <2> QED  BY <1>1, <1>5, <1>9, <1>10, Follows
<1>12. <<DOMAIN seq, ReassignEndangered(s)>> \in Q  BY <1>1, <1>3, <1>11
<1> QED  BY <1>12 DEF seq

-----------------------------------------------------------------------------
(* Lists without repetition: the keys of inc_nodes, the files looked at. *)

Distinct(q) == \A i, j \in DOMAIN q : q[i] = q[j] => i = j

(* A finite set is listed by SetToSeq. *)
LEMMA ListOf ==
    ASSUME NEW S, IsFiniteSet(S)
    PROVE  SetToSeq(S) \in Seq(S) /\ ToSet(SetToSeq(S)) = S
<1> DEFINE n == Cardinality(S)
           q == SetToSeq(S)
<1>1. n \in Nat /\ ExistsBijection(1..n, S)  BY FS_CardinalityType
<1>2. \E f \in [1..n -> S] : IsInjective(f)
      BY <1>1 DEF ExistsBijection, Bijection, Injection
<1>3. q \in [1..n -> S] /\ IsInjective(q)  BY <1>2 DEF SetToSeq
<1>4. IsFiniteSet(1..n) /\ Cardinality(1..n) = n  BY <1>1, FS_Interval
<1> HIDE DEF q
<1>5. q \in Injection(1..n, S)  BY <1>3 DEF Injection
<1>6. q \in Surjection(1..n, S)
      <2>1. Cardinality(1..n) = Cardinality(S)  BY <1>4
      <2> QED  BY <1>5, <2>1, FS_Injection
<1>7. \A x \in S : \E i \in 1..n : q[i] = x  BY <1>6 DEF Surjection
<1>8. q \in Seq(S)  BY <1>1, <1>3
<1>9. ToSet(q) = S  BY <1>3, <1>7 DEF ToSet
<1> QED  BY <1>8, <1>9 DEF q

(* As many keys as entries. *)
LEMMA DistinctCount ==
    ASSUME NEW S, NEW q \in Seq(S), Distinct(q)
    PROVE  Cardinality(ToSet(q)) = Len(q)
<1> DEFINE n == Len(q)
           R == ToSet(q)
<1>1. n \in Nat /\ DOMAIN q = 1..n  OBVIOUS
<1>2. IsFiniteSet(1..n) /\ Cardinality(1..n) = n  BY <1>1, FS_Interval
<1>3. q \in [1..n -> R]
      <2>1. q = [i \in 1..n |-> q[i]]  BY <1>1
      <2>2. \A i \in 1..n : q[i] \in R  BY <1>1 DEF ToSet
      <2> HIDE DEF R
      <2> QED  BY <2>1, <2>2
<1>4. \A x \in R : \E i \in 1..n : q[i] = x  BY <1>1 DEF ToSet
<1>5. q \in Surjection(1..n, R)
      <2> HIDE DEF R
      <2> QED  BY <1>3, <1>4 DEF Surjection
<1>6. q \in Injection(1..n, R)
      <2> HIDE DEF R
      <2> QED  BY <1>1, <1>3 DEF Injection, IsInjective, Distinct
<1> HIDE DEF n, R
<1>7. Cardinality(R) = Cardinality(1..n)  BY <1>2, <1>5, <1>6, FS_Surjection
<1> QED  BY <1>2, <1>7 DEF n, R

(* A new key is appended. *)
LEMMA Longer ==
    ASSUME NEW S, NEW q \in Seq(S), Distinct(q), NEW e \in S, e \notin ToSet(q)
    PROVE  /\ Append(q, e) \in Seq(S) /\ Distinct(Append(q, e))
           /\ ToSet(Append(q, e)) = ToSet(q) \cup {e}
<1> DEFINE n == Len(q)
           p == Append(q, e)
<1>1. n \in Nat /\ DOMAIN q = 1..n  OBVIOUS
<1>2. /\ p \in Seq(S) /\ DOMAIN p = 1..(n + 1) /\ p[n + 1] = e
      /\ \A i \in 1..n : p[i] = q[i]
      OBVIOUS
<1>3. \A i \in 1..n : q[i] # e  BY <1>1 DEF ToSet
<1> HIDE DEF p, n
<1>4. \A i \in 1..(n + 1) : i = n + 1 \/ i \in 1..n  BY <1>1
<1>5. Distinct(p)
      <2> SUFFICES ASSUME NEW i \in 1..(n + 1), NEW j \in 1..(n + 1), p[i] = p[j] PROVE i = j
            BY <1>2 DEF Distinct
      <2>1. CASE i \in 1..n /\ j \in 1..n  BY <1>1, <1>2, <2>1 DEF Distinct
      <2>2. CASE i = n + 1 /\ j \in 1..n  BY <1>2, <1>3, <2>2
      <2>3. CASE i \in 1..n /\ j = n + 1  BY <1>2, <1>3, <2>3
      <2> QED  BY <1>4, <2>1, <2>2, <2>3
<1>6. ToSet(p) = ToSet(q) \cup {e}
      <2>1. \A i \in 1..n : i \in 1..(n + 1)  BY <1>1
      <2>2. n + 1 \in 1..(n + 1)  BY <1>1
      <2> QED  BY <1>1, <1>2, <1>4, <2>1, <2>2 DEF ToSet
<1> QED  BY <1>2, <1>5, <1>6 DEF p

(* A key is removed. *)
LEMMA Shorter ==
    ASSUME NEW S, NEW q \in Seq(S), Distinct(q), NEW e
    PROVE  /\ RemoveFirst(q, e) \in Seq(S) /\ Distinct(RemoveFirst(q, e))
           /\ ToSet(RemoveFirst(q, e)) = ToSet(q) \ {e}
<1> DEFINE n == Len(q)
<1>1. n \in Nat /\ DOMAIN q = 1..n /\ \A i \in 1..n : q[i] \in S  OBVIOUS
<1>2. CASE ~ \E i \in 1..n : q[i] = e
      <2>1. RemoveFirst(q, e) = q  BY <1>2 DEF RemoveFirst
      <2> QED  BY <1>1, <1>2, <2>1 DEF ToSet
<1>3. ASSUME NEW k \in 1..n, q[k] = e PROVE RemoveFirst(q, e) = RemoveAt(q, k)
      <2> DEFINE I == {i \in 1..n : q[i] = e}
      <2>1. I = {k}  BY <1>1, <1>3 DEF Distinct
      <2>2. Min(I) = k
            <3>1. k <= k  BY <1>1
            <3> HIDE DEF I
            <3> QED  BY <2>1, <3>1 DEF Min
      <2>3. SelectInSeq(q, LAMBDA v : v = e) = IF I # {} THEN Min(I) ELSE 0  BY DEF SelectInSeq
      <2> HIDE DEF I
      <2>4. SelectInSeq(q, LAMBDA v : v = e) = k  BY <2>1, <2>2, <2>3
      <2> QED  BY <1>3, <2>4 DEF RemoveFirst
<1>4. ASSUME NEW k \in 1..n, q[k] = e
      PROVE  /\ RemoveAt(q, k) \in Seq(S) /\ Distinct(RemoveAt(q, k))
             /\ ToSet(RemoveAt(q, k)) = ToSet(q) \ {e}
      <2> DEFINE a == SubSeq(q, 1, k - 1)
                 b == SubSeq(q, k + 1, n)
                 p == RemoveAt(q, k)
      <2>1. p = a \o b  BY DEF RemoveAt
      <2>2. a \in Seq(S) /\ Len(a) = k - 1 /\ \A i \in 1..(k - 1) : a[i] = q[i]  BY <1>1
      <2>3. b \in Seq(S) /\ Len(b) = n - k /\ \A i \in 1..(n - k) : b[i] = q[k + i]
            <3>1. \A i \in (k + 1)..n : q[i] \in S  BY <1>1
            <3>2. b \in Seq(S)  BY <1>1, <3>1
            <3>3. Len(b) = n - k
                  <4>1. CASE k = n  BY <1>1, <4>1
                  <4>2. CASE k < n
                        <5>1. k + 1 <= n /\ k + 1 \in Int /\ n \in Int  BY <1>1, <4>2
                        <5>2. Len(b) = n - (k + 1) + 1  BY <5>1
                        <5> HIDE DEF b, n
                        <5> QED  BY <1>1, <5>2
                  <4> HIDE DEF b, n
                  <4> QED  BY <1>1, <4>1, <4>2
            <3>4. \A i \in 1..(n - k) : b[i] = q[(k + 1) + i - 1]  BY <1>1
            <3>5. \A i \in 1..(n - k) : (k + 1) + i - 1 = k + i  BY <1>1
            <3> QED  BY <3>2, <3>3, <3>4, <3>5
      <2> HIDE DEF a, b, p
      <2>4. p \in Seq(S) /\ Len(p) = n - 1
            <3>1. a \in Seq(S) /\ b \in Seq(S)  BY <2>2, <2>3
            <3>2. p \in Seq(S)  BY <2>1, <3>1
            <3>3. Len(p) = Len(a) + Len(b)  BY <2>1, <3>1
            <3> QED  BY <1>1, <2>2, <2>3, <3>2, <3>3
      <2>5. \A i \in 1..(n - 1) : p[i] = IF i < k THEN q[i] ELSE q[i + 1]
            <3> TAKE i \in 1..(n - 1)
            <3>1. p[i] = IF i <= k - 1 THEN a[i] ELSE b[i - (k - 1)]  BY <1>1, <2>1, <2>2, <2>3
            <3>2. i > k - 1 => i - (k - 1) \in 1..(n - k) /\ k + (i - (k - 1)) = i + 1  BY <1>1
            <3>3. CASE i < k  BY <1>1, <2>2, <3>1, <3>3
            <3>4. CASE ~ (i < k)  BY <1>1, <2>3, <3>1, <3>2, <3>4
            <3> QED  BY <3>3, <3>4
      <2>6. DOMAIN p = 1..(n - 1)  BY <2>4
      <2> HIDE DEF n
      <2>7. Distinct(p)
            <3> SUFFICES ASSUME NEW i \in 1..(n - 1), NEW j \in 1..(n - 1), p[i] = p[j] PROVE i = j
                  BY <2>6 DEF Distinct
            <3> DEFINE A(x) == IF x < k THEN x ELSE x + 1
            <3>1. A(i) \in 1..n /\ A(j) \in 1..n  BY <1>1
            <3>2. q[A(i)] = q[A(j)]  BY <2>5
            <3>3. A(i) = A(j)  BY <1>1, <3>1, <3>2 DEF Distinct
            <3> QED  BY <1>1, <3>3
      <2>8. ToSet(p) = ToSet(q) \ {e}
            <3>1. ASSUME NEW x \in ToSet(p) PROVE x \in ToSet(q) \ {e}
                  <4>1. PICK i \in 1..(n - 1) : p[i] = x  BY <2>6, <3>1 DEF ToSet
                  <4>2. PICK j \in 1..n : j # k /\ q[j] = x  BY <1>1, <2>5, <4>1
                  <4> QED  BY <1>1, <1>4, <4>2 DEF Distinct, ToSet
            <3>2. ASSUME NEW x \in ToSet(q) \ {e} PROVE x \in ToSet(p)
                  <4>1. PICK j \in 1..n : q[j] = x  BY <1>1, <3>2 DEF ToSet
                  <4>2. j # k  BY <1>4, <3>2, <4>1
                  <4>3. CASE j < k
                        <5>1. j \in 1..(n - 1) /\ p[j] = q[j]  BY <1>1, <2>5, <4>3
                        <5> QED  BY <2>6, <4>1, <5>1 DEF ToSet
                  <4>4. CASE j > k
                        <5>1. j - 1 \in 1..(n - 1) /\ (j - 1) + 1 = j /\ ~ (j - 1 < k)  BY <1>1, <4>4
                        <5>2. p[j - 1] = q[j]  BY <2>5, <5>1
                        <5> QED  BY <2>6, <4>1, <5>1, <5>2 DEF ToSet
                  <4> QED  BY <1>1, <4>2, <4>3, <4>4
            <3> QED  BY <3>1, <3>2
      <2> QED  BY <2>4, <2>7, <2>8 DEF p
<1> QED  BY <1>2, <1>3, <1>4

-----------------------------------------------------------------------------
(* The states that the chained steps of a maintenance pass on. *)

NodeRecords == [quota : Nat, assigned : SUBSET Cids, gb : Nat,
    beat : {"fresh", "stale"}, online : {"yes", "no"}, fails : 0..SlashAfter,
    proofAge : -1..2, failAge : -1..2, proofGb : Nat, leaving : {"yes", "no"},
    wait : 0..ExitDays]
FileRecords == [status : {"none", "stored"}, replicas : SUBSET Nodes,
    prev : Cids \cup {None}, notified : {"yes", "no"}]
States == [order : Seq(Nodes), node : [Nodes -> NodeRecords], file : [Cids -> FileRecords],
    balance : [Nodes -> Nat], stake : [Nodes -> Nat], unbonding : [Nodes -> Nat],
    fund : Nat, rewards : [Nodes -> Nat]]

\* every key has a record, once; who holds a file is a key, and has it assigned
Keyed(s) == Distinct(s.order) /\ \A n \in Nodes : n \notin Registered(s) => s.node[n] = Absent
Held(s) ==
    \A c \in Cids :
        /\ s.file[c].status = "none" => s.file[c].replicas = {}
        /\ s.file[c].prev = None =>
              \A n \in s.file[c].replicas : n \in Registered(s) /\ c \in s.node[n].assigned
Sound(s) == s \in States /\ Keyed(s) /\ Held(s)

Money(s) == SumFunction(s.balance) + SumFunction(s.stake) + SumFunction(s.unbonding) + s.fund

\* what no step of a maintenance does: create money, make a proof, give a leaver a file,
\* change what a content id stands for
Out(s, n) == n \notin Registered(s) \/ s.node[n].leaving = "yes"
Keeps(s, r) ==
    /\ Money(r) = Money(s)
    /\ \A n \in Nodes : r.node[n].proofAge \in {s.node[n].proofAge, 2}
    /\ \A n \in Nodes : Out(s, n) =>
          /\ Out(r, n) /\ r.node[n].assigned \subseteq s.node[n].assigned
          /\ \A c \in Cids : n \in r.file[c].replicas => n \in s.file[c].replicas
    /\ \A c \in Cids : r.file[c].status = s.file[c].status /\ r.file[c].prev = s.file[c].prev
Since(s, r) == Keeps(s, r) /\ r.rewards = s.rewards

\* what serving files leaves alone, and serving the file c only
Grows(s, r) ==
    /\ r.order = s.order
    /\ \A n \in Nodes : r.node[n].online = s.node[n].online /\ r.node[n].leaving = s.node[n].leaving
    /\ \A x \in Cids : s.file[x].replicas \subseteq r.file[x].replicas
Local(s, r, c) == Grows(s, r) /\ \A x \in Cids \ {c} : r.file[x] = s.file[x]
Told(s, c) == IsRed(s, c) => s.file[c].notified = "yes"

(* What is kept by two steps is kept by both together. *)
LEMMA SinceTransitive ==
    ASSUME NEW s, NEW r, NEW t, Since(s, r), Since(r, t)
    PROVE  Since(s, t)
BY DEF Since, Keeps

(* So is what serving one file leaves alone. *)
LEMMA LocalTransitive ==
    ASSUME NEW s, NEW r, NEW t, NEW c, Local(s, r, c), Local(r, t, c)
    PROVE  Local(s, t, c)
BY DEF Local, Grows

(* A state is as it was since itself. *)
LEMMA SinceItself == \A s, c : Since(s, s) /\ Local(s, s, c)
BY DEF Since, Keeps, Local, Grows

(* The event is looked at again for one file. *)
LEMMA NotifyOK ==
    ASSUME NEW s, Sound(s), NEW c \in Cids
    PROVE  /\ Sound(Notify(s, c)) /\ Since(s, Notify(s, c)) /\ Local(s, Notify(s, c), c)
           /\ Told(Notify(s, c), c)
           /\ \A x \in Cids : Notify(s, c).file[x].replicas = s.file[x].replicas
<1> DEFINE v == IF IsRed(s, c) THEN "yes" ELSE "no"
           r == Notify(s, c)
<1>1. s \in States /\ v \in {"yes", "no"}  BY DEF Sound
<1>2. r = [s EXCEPT !.file = [s.file EXCEPT ![c] = [s.file[c] EXCEPT !.notified = v]]]
      BY <1>1 DEF Notify, States
<1> HIDE DEF v, r
<1>3. r \in States
      <2> DEFINE f == [s.file[c] EXCEPT !.notified = v]
                 g == [s.file EXCEPT ![c] = f]
      <2>1. s.file \in [Cids -> FileRecords]  BY <1>1 DEF States
      <2>2. f \in FileRecords
            <3>1. s.file[c] \in FileRecords  BY <2>1
            <3> QED  BY <1>1, <3>1 DEF FileRecords
      <2> HIDE DEF f
      <2>3. g \in [Cids -> FileRecords] /\ r = [s EXCEPT !.file = g]  BY <1>2, <2>1, <2>2 DEF f
      <2> HIDE DEF g
      <2> QED  BY <1>1, <2>3 DEF States
<1>4. /\ r.order = s.order /\ r.node = s.node /\ r.balance = s.balance /\ r.stake = s.stake
      /\ r.unbonding = s.unbonding /\ r.fund = s.fund /\ r.rewards = s.rewards
      /\ r.file = [s.file EXCEPT ![c] = [s.file[c] EXCEPT !.notified = v]]
      BY <1>1, <1>2 DEF States
<1>5. /\ r.file[c].notified = v
      /\ \A x \in Cids : /\ r.file[x].replicas = s.file[x].replicas
                         /\ r.file[x].status = s.file[x].status /\ r.file[x].prev = s.file[x].prev
      /\ \A x \in Cids \ {c} : r.file[x] = s.file[x]
      BY <1>1, <1>4 DEF States, FileRecords
<1>6. Sound(r)  BY <1>3, <1>4, <1>5 DEF Sound, Keyed, Held, Registered
<1>7. Since(s, r)  BY <1>4, <1>5 DEF Since, Keeps, Money, Out, Registered
<1>8. Local(s, r, c)  BY <1>4, <1>5 DEF Local, Grows
<1>9. IsRed(r, c) = IsRed(s, c)  BY <1>4, <1>5 DEF IsRed, Up, Registered
<1>10. Told(r, c)  BY <1>5, <1>9 DEF Told, v
<1> QED  BY <1>5, <1>6, <1>7, <1>8, <1>10 DEF r

(* A node that can take the file claims it. *)
LEMMA ClaimedOK ==
    ASSUME NEW s, Sound(s), NEW n \in Nodes, NEW c \in Stored(s)
    PROVE  /\ Sound(Claimed(s, n, c)) /\ Since(s, Claimed(s, n, c)) /\ Local(s, Claimed(s, n, c), c)
           /\ Told(s, c) => Told(Claimed(s, n, c), c)
<1> DEFINE u == [s EXCEPT !.file[c].replicas = @ \cup {n}, !.node[n].assigned = @ \cup {c},
                          !.node[n].gb = @ + Size[c]]
<1>1. CASE ~Claimable(s, n, c)  BY <1>1, SinceItself DEF Claimed
<1>2. CASE Claimable(s, n, c)
      <2>1. Claimed(s, n, c) = Notify(u, c)  BY <1>2 DEF Claimed
      <2>2. s \in States /\ c \in Cids /\ s.file[c].status = "stored" /\ Size[c] \in Nat
            BY StorageAssumption DEF Sound, Stored
      <2>3. n \in Registered(s) /\ s.node[n].leaving = "no"  BY <1>2 DEF Claimable, CanAssign
      <2>4. u = [s EXCEPT !.file = [s.file EXCEPT ![c] = [s.file[c] EXCEPT !.replicas = @ \cup {n}]],
                          !.node = [s.node EXCEPT ![n] = [s.node[n] EXCEPT !.assigned = @ \cup {c},
                                                                          !.gb = @ + Size[c]]]]
            BY <2>2 DEF States
      <2> HIDE DEF u
      <2> DEFINE f == [s.file[c] EXCEPT !.replicas = @ \cup {n}]
                 g == [s.node[n] EXCEPT !.assigned = @ \cup {c}, !.gb = @ + Size[c]]
      <2>5. s.file \in [Cids -> FileRecords] /\ s.node \in [Nodes -> NodeRecords]  BY <2>2 DEF States
      <2>6. /\ f \in FileRecords /\ f.replicas = s.file[c].replicas \cup {n}
            /\ f.status = s.file[c].status /\ f.prev = s.file[c].prev
            <3>1. s.file[c] \in FileRecords  BY <2>2, <2>5
            <3> QED  BY <3>1 DEF FileRecords
      <2>7. /\ g \in NodeRecords /\ g.assigned = s.node[n].assigned \cup {c}
            /\ g.online = s.node[n].online /\ g.leaving = s.node[n].leaving
            /\ g.proofAge = s.node[n].proofAge
            <3>1. s.node[n] \in NodeRecords  BY <2>5
            <3>2. s.node[n].gb + Size[c] \in Nat  BY <2>2, <3>1 DEF NodeRecords
            <3> QED  BY <2>2, <3>1, <3>2 DEF NodeRecords
      <2>8. u = [s EXCEPT !.file = [s.file EXCEPT ![c] = f], !.node = [s.node EXCEPT ![n] = g]]
            BY <2>4
      <2> HIDE DEF f, g
      <2>9. u \in States
            <3> DEFINE F == [s.file EXCEPT ![c] = f]
                       G == [s.node EXCEPT ![n] = g]
            <3>1. F \in [Cids -> FileRecords] /\ G \in [Nodes -> NodeRecords]  BY <2>5, <2>6, <2>7
            <3>2. u = [s EXCEPT !.file = F, !.node = G]  BY <2>8
            <3> HIDE DEF F, G
            <3> QED  BY <2>2, <3>1, <3>2 DEF States
      <2>10. /\ u.order = s.order /\ u.balance = s.balance /\ u.stake = s.stake
            /\ u.unbonding = s.unbonding /\ u.fund = s.fund /\ u.rewards = s.rewards
            /\ u.file = [s.file EXCEPT ![c] = f] /\ u.node = [s.node EXCEPT ![n] = g]
            BY <2>2, <2>8 DEF States
      <2>11. /\ \A x \in Cids : /\ u.file[x].replicas = IF x = c THEN s.file[x].replicas \cup {n}
                                                       ELSE s.file[x].replicas
                               /\ u.file[x].status = s.file[x].status /\ u.file[x].prev = s.file[x].prev
            /\ \A x \in Cids \ {c} : u.file[x] = s.file[x]
            BY <2>2, <2>10, <2>5, <2>6
      <2>12. /\ \A m \in Nodes : /\ u.node[m].online = s.node[m].online
                                /\ u.node[m].leaving = s.node[m].leaving
                                /\ u.node[m].proofAge = s.node[m].proofAge
                                /\ u.node[m].assigned = IF m = n THEN s.node[m].assigned \cup {c}
                                                        ELSE s.node[m].assigned
            /\ \A m \in Nodes \ {n} : u.node[m] = s.node[m]
            BY <2>10, <2>5, <2>7
      <2>13. Sound(u)
            <3>1. Keyed(u)  BY <2>3, <2>10, <2>12 DEF Sound, Keyed, Registered
            <3>2. Held(u)
                  <4> SUFFICES ASSUME NEW y \in Cids
                               PROVE  /\ u.file[y].status = "none" => u.file[y].replicas = {}
                                      /\ u.file[y].prev = None =>
                                           \A m \in u.file[y].replicas :
                                             m \in ToSet(u.order) /\ y \in u.node[m].assigned
                        BY DEF Held, Registered
                  <4>1. /\ s.file[y].status = "none" => s.file[y].replicas = {}
                        /\ s.file[y].prev = None =>
                             \A m \in s.file[y].replicas :
                               m \in ToSet(s.order) /\ y \in s.node[m].assigned
                        BY DEF Sound, Held, Registered
                  <4>2. s.file[y].replicas \subseteq Nodes  BY <2>5 DEF FileRecords
                  <4>3. n \in ToSet(s.order)  BY <2>3 DEF Registered
                  <4>4. /\ u.file[y].status = s.file[y].status /\ u.file[y].prev = s.file[y].prev
                        /\ u.file[y].replicas = IF y = c THEN s.file[y].replicas \cup {n}
                                                ELSE s.file[y].replicas
                        BY <2>11
                  <4>5. /\ \A m \in Nodes : s.node[m].assigned \subseteq u.node[m].assigned
                        /\ c \in u.node[n].assigned
                        BY <2>12
                  <4>6. u.order = s.order  BY <2>10
                  <4>7. u.file[y].status # "none" \/ u.file[y].replicas = {}  BY <2>2, <4>1, <4>4
                  <4>8. ASSUME u.file[y].prev = None, NEW m \in u.file[y].replicas
                        PROVE  m \in ToSet(u.order) /\ y \in u.node[m].assigned
                        BY <4>1, <4>2, <4>3, <4>4, <4>5, <4>6, <4>8
                  <4> QED  BY <4>7, <4>8
            <3> QED  BY <2>9, <3>1, <3>2 DEF Sound
      <2>14. Since(s, u)
            <3>1. Money(u) = Money(s)  BY <2>10 DEF Money
            <3>2. ~Out(s, n) /\ \A m \in Nodes : Out(s, m) => Out(u, m)
                  BY <2>3, <2>10, <2>12 DEF Out, Registered
            <3>3. \A m \in Nodes : Out(s, m) => u.node[m].assigned = s.node[m].assigned
                  BY <2>12, <3>2
            <3>4. \A m \in Nodes, y \in Cids :
                    Out(s, m) /\ m \in u.file[y].replicas => m \in s.file[y].replicas
                  BY <2>11, <3>2
            <3>5. \A m \in Nodes : u.node[m].proofAge \in {s.node[m].proofAge, 2}  BY <2>12
            <3> QED  BY <2>10, <2>11, <3>1, <3>2, <3>3, <3>4, <3>5 DEF Since, Keeps
      <2>15. Local(s, u, c)  BY <2>10, <2>11, <2>12 DEF Local, Grows
      <2> QED  BY <2>1, <2>2, <2>13, <2>14, <2>15, NotifyOK, SinceTransitive, LocalTransitive
<1> QED  BY <1>1, <1>2

(* A step that only moves NOVA. *)
LEMMA MoneyMoves ==
    ASSUME NEW s, Sound(s), NEW r \in States, Money(r) = Money(s),
           r.order = s.order, r.node = s.node, r.file = s.file, r.rewards = s.rewards
    PROVE  /\ Sound(r) /\ Since(s, r) /\ \A c : Local(s, r, c) /\ (Told(s, c) => Told(r, c))
<1>1. Sound(r)  BY DEF Sound, Keyed, Held, Registered
<1>2. Since(s, r)  BY DEF Since, Keeps, Out, Registered
<1>3. \A c : Local(s, r, c) /\ (Told(s, c) => Told(r, c))
      BY DEF Local, Grows, Told, IsRed, Up, Registered
<1> QED  BY <1>1, <1>2, <1>3

(* A node is paid for a file, and claims it. *)
LEMMA PaidClaimOK ==
    ASSUME NEW s, Sound(s), NEW n \in Nodes, NEW c \in Stored(s), NEW fee \in Nat
    PROVE  /\ Sound(PaidClaim(s, n, c, fee)) /\ Since(s, PaidClaim(s, n, c, fee))
           /\ Local(s, PaidClaim(s, n, c, fee), c)
           /\ Told(s, c) => Told(PaidClaim(s, n, c, fee), c)
<1> DEFINE b == [s.balance EXCEPT ![n] = @ + fee]
           u == [s EXCEPT !.fund = @ - fee, !.balance[n] = @ + fee]
<1>1. CASE s.fund < fee  BY <1>1, SinceItself DEF PaidClaim
<1>2. CASE ~(s.fund < fee)
      <2>1. PaidClaim(s, n, c, fee) = Claimed(u, n, c)  BY <1>2 DEF PaidClaim
      <2>2. s \in States /\ s.balance \in [Nodes -> Nat] /\ s.fund \in Nat /\ s.fund - fee \in Nat
            BY <1>2 DEF Sound, States
      <2>3. b \in [Nodes -> Nat] /\ u = [s EXCEPT !.fund = @ - fee, !.balance = b]  BY <2>2 DEF States
      <2>4. SumFunction(b) = SumFunction(s.balance) + fee
            <3>1. SumFunction([s.balance EXCEPT ![n] = s.balance[n] + fee])
                    = SumFunction(s.balance) - s.balance[n] + (s.balance[n] + fee)
                  <4>1. s.balance \in [Nodes -> Int] /\ s.balance[n] + fee \in Int  BY <2>2
                  <4>2. IsFiniteSet(Nodes)  BY StorageAssumption
                  <4> QED  BY <4>1, <4>2, TotalPut
            <3>2. SumFunction(s.balance) \in Int  BY <2>2, StorageAssumption, TotalInt
            <3> QED  BY <2>2, <3>1, <3>2
      <2> HIDE DEF b, u
      <2>5. /\ u \in States /\ u.order = s.order /\ u.node = s.node /\ u.file = s.file
            /\ u.rewards = s.rewards /\ u.fund = s.fund - fee /\ u.balance = b
            /\ u.stake = s.stake /\ u.unbonding = s.unbonding
            BY <2>2, <2>3 DEF States
      <2>6. Money(u) = Money(s)
            <3>1. /\ SumFunction(s.balance) \in Int /\ SumFunction(s.stake) \in Int
                  /\ SumFunction(s.unbonding) \in Int
                  BY <2>2, StorageAssumption, TotalInt DEF States
            <3> QED  BY <2>2, <2>4, <2>5, <3>1 DEF Money
      <2>7. Sound(u) /\ Since(s, u) /\ Local(s, u, c) /\ (Told(s, c) => Told(u, c))
            BY <2>5, <2>6, MoneyMoves
      <2>8. c \in Stored(u)  BY <2>5 DEF Stored
      <2>9. /\ Sound(Claimed(u, n, c)) /\ Since(u, Claimed(u, n, c)) /\ Local(u, Claimed(u, n, c), c)
            /\ Told(u, c) => Told(Claimed(u, n, c), c)
            BY <2>7, <2>8, ClaimedOK
      <2> QED  BY <2>1, <2>7, <2>9, SinceTransitive, LocalTransitive
<1> QED  BY <1>1, <1>2

(* Nodes are paid to hold a file. *)
LEMMA ReplenishedOK ==
    ASSUME NEW s, Sound(s), NEW c \in Stored(s), NEW goal, NEW fee \in Nat
    PROVE  /\ Sound(Replenished(s, c, goal, fee)) /\ Since(s, Replenished(s, c, goal, fee))
           /\ Local(s, Replenished(s, c, goal, fee), c)
           /\ Told(s, c) => Told(Replenished(s, c, goal, fee), c)
<1> DEFINE Good(r) == Sound(r) /\ Since(s, r) /\ Local(s, r, c) /\ (Told(s, c) => Told(r, c))
           A == SUBSET (DOMAIN s.order)
           Q == {q \in A \X States : Good(q[2])}
<1>1. \A T, r : <<T, r>> \in Q <=> T \in A /\ Good(r)
      <2>1. \A r : Good(r) => r \in States  BY DEF Sound
      <2> HIDE DEF Good, A
      <2> QED  BY <2>1
<1>2. s.order \in Seq(Nodes) /\ \A i \in DOMAIN s.order : s.order[i] \in Nodes
      BY DEF Sound, States
<1> HIDE DEF Q
<1>3. <<{}, s>> \in Q  BY <1>1, SinceItself
<1>4. ASSUME NEW T \in SUBSET (DOMAIN s.order), NEW i \in DOMAIN s.order, NEW r, <<T, r>> \in Q
      PROVE  <<T \cup {i}, PaidClaim(r, s.order[i], c, fee)>> \in Q /\ <<T \cup {i}, r>> \in Q
      <2>1. Good(r)  BY <1>1, <1>4
      <2>2. c \in Stored(r)  BY <2>1 DEF Since, Keeps, Stored
      <2>3. Good(PaidClaim(r, s.order[i], c, fee))
            BY <1>2, <2>1, <2>2, PaidClaimOK, SinceTransitive, LocalTransitive
      <2> HIDE DEF Good
      <2> QED  BY <1>1, <2>1, <2>3
<1>5. <<DOMAIN s.order, Replenished(s, c, goal, fee)>> \in Q
      BY <1>2, <1>3, <1>4, RefillFold
<1> QED  BY <1>1, <1>5

(* Serving one file tells nobody less about the others. *)
LEMMA ToldStays ==
    ASSUME NEW s, Sound(s), NEW r, NEW c, Local(s, r, c), NEW x \in Cids, x # c, Told(s, x)
    PROVE  Told(r, x)
<1>1. r.file[x] = s.file[x] /\ r.order = s.order  BY DEF Local, Grows
<1>2. s.file[x].replicas \subseteq Nodes  BY DEF Sound, States, FileRecords
<1>3. \A n \in s.file[x].replicas :
        r.node[n].online = s.node[n].online /\ r.node[n].leaving = s.node[n].leaving
      BY <1>2 DEF Local, Grows
<1>4. IsRed(r, x) => IsRed(s, x)  BY <1>1, <1>3 DEF IsRed, Up, Registered
<1> QED  BY <1>1, <1>4 DEF Told

(* The listed files are files. *)
LEMMA Listed ==
    ASSUME NEW S, S \subseteq Cids
    PROVE  /\ SetToSeq(S) \in Seq(Cids) /\ ToSet(SetToSeq(S)) = S
           /\ \A i \in DOMAIN SetToSeq(S) : SetToSeq(S)[i] \in S
<1>1. IsFiniteSet(S)  BY StorageAssumption, FS_Subset
<1>2. SetToSeq(S) \in Seq(S) /\ ToSet(SetToSeq(S)) = S  BY <1>1, ListOf
<1>3. SetToSeq(S) \in Seq(Cids)  BY <1>2
<1> QED  BY <1>2, <1>3

(* The event is looked at again for many files. *)
LEMMA NotifyAllOK ==
    ASSUME NEW s, Sound(s), NEW S, S \subseteq Cids
    PROVE  /\ Sound(ForEach(Notify, s, S)) /\ Since(s, ForEach(Notify, s, S))
           /\ Grows(s, ForEach(Notify, s, S))
<1> DEFINE seq == SetToSeq(S)
           Good(r) == Sound(r) /\ Since(s, r) /\ Grows(s, r)
           A == SUBSET (DOMAIN seq)
           Q == {q \in A \X States : Good(q[2])}
<1>1. \A T, r : <<T, r>> \in Q <=> T \in A /\ Good(r)
      <2>1. \A r : Good(r) => r \in States  BY DEF Sound
      <2> HIDE DEF Good, A
      <2> QED  BY <2>1
<1>2. seq \in Seq(Cids) /\ \A i \in DOMAIN seq : seq[i] \in Cids  BY Listed
<1> HIDE DEF Q, seq
<1>3. <<{}, s>> \in Q  BY <1>1, SinceItself DEF Local
<1>4. ASSUME NEW T \in A, NEW i \in DOMAIN seq, NEW r, <<T, r>> \in Q
      PROVE  <<T \cup {i}, Notify(r, seq[i])>> \in Q
      <2>1. Good(r)  BY <1>1, <1>4
      <2>2. Good(Notify(r, seq[i]))
            <3>1. /\ Sound(Notify(r, seq[i])) /\ Since(r, Notify(r, seq[i]))
                  /\ Grows(r, Notify(r, seq[i]))
                  BY <1>2, <2>1, NotifyOK DEF Local
            <3>2. Since(s, Notify(r, seq[i]))  BY <2>1, <3>1, SinceTransitive
            <3>3. Grows(s, Notify(r, seq[i]))  BY <2>1, <3>1 DEF Grows
            <3> QED  BY <3>1, <3>2, <3>3
      <2> HIDE DEF Good
      <2> QED  BY <1>1, <2>2
<1>5. <<DOMAIN seq, ForEach(Notify, s, S)>> \in Q
      BY <1>2, <1>3, <1>4, NotifyFold DEF seq
<1> QED  BY <1>1, <1>5

(* Hot files are served. *)
LEMMA ProtectHotOK ==
    ASSUME NEW s, Sound(s), NEW cids
    PROVE  Sound(ProtectHot(s, cids)) /\ Since(s, ProtectHot(s, cids))
<1> DEFINE seq == SetToSeq(cids \cap Stored(s))
           Good(r) == Sound(r) /\ Since(s, r)
           A == SUBSET (DOMAIN seq)
           Q == {q \in A \X States : Good(q[2])}
<1>1. \A T, r : <<T, r>> \in Q <=> T \in A /\ Good(r)
      <2>1. \A r : Good(r) => r \in States  BY DEF Sound
      <2> HIDE DEF Good, A
      <2> QED  BY <2>1
<1>2. seq \in Seq(Cids) /\ \A i \in DOMAIN seq : seq[i] \in Stored(s)
      <2>1. cids \cap Stored(s) \subseteq Cids  BY DEF Stored
      <2> QED  BY <2>1, Listed
<1> HIDE DEF Q, seq
<1>3. <<{}, s>> \in Q  BY <1>1, SinceItself
<1>4. ASSUME NEW T \in A, NEW i \in DOMAIN seq, NEW r, <<T, r>> \in Q
      PROVE  <<T \cup {i}, Replenished(r, seq[i], HotReplicas, HotFee)>> \in Q
      <2>1. Good(r)  BY <1>1, <1>4
      <2>2. seq[i] \in Stored(r)  BY <1>2, <2>1 DEF Since, Keeps, Stored
      <2>3. Good(Replenished(r, seq[i], HotReplicas, HotFee))
            BY <2>1, <2>2, ReplenishedOK, SinceTransitive, StorageAssumption
      <2> HIDE DEF Good
      <2> QED  BY <1>1, <2>3
<1>5. <<DOMAIN seq, ProtectHot(s, cids)>> \in Q
      BY <1>2, <1>3, <1>4, ProtectFold DEF seq
<1> QED  BY <1>1, <1>5

(* Endangered files are served, and their owners told. *)
LEMMA ReassignOK ==
    ASSUME NEW s, Sound(s)
    PROVE  /\ Sound(ReassignEndangered(s)) /\ Since(s, ReassignEndangered(s))
           /\ Grows(s, ReassignEndangered(s))
           /\ \A c \in Endangered(s) : Told(ReassignEndangered(s), c)
<1> DEFINE seq == SetToSeq(Endangered(s))
           Good(T, r) == /\ Sound(r) /\ Since(s, r) /\ Grows(s, r)
                         /\ \A j \in T : Told(r, seq[j])
           A == SUBSET (DOMAIN seq)
           Q == {q \in A \X States : Good(q[1], q[2])}
<1>1. \A T, r : <<T, r>> \in Q <=> T \in A /\ Good(T, r)
      <2>1. \A T, r : Good(T, r) => r \in States  BY DEF Sound
      <2> HIDE DEF Good, A
      <2> QED  BY <2>1
<1>2. /\ seq \in Seq(Cids) /\ ToSet(seq) = Endangered(s)
      /\ \A i \in DOMAIN seq : seq[i] \in Stored(s)
      <2>1. Endangered(s) \subseteq Cids /\ Endangered(s) \subseteq Stored(s)  BY DEF Endangered, Stored
      <2> QED  BY <2>1, Listed
<1> HIDE DEF Q, seq
<1>3. <<{}, s>> \in Q  BY <1>1, SinceItself DEF Local
<1>4. ASSUME NEW T \in A, NEW i \in DOMAIN seq, NEW r, <<T, r>> \in Q
      PROVE  <<T \cup {i}, Replenished(Notify(r, seq[i]), seq[i], MinHealthy, ReassignFee)>> \in Q
      <2> DEFINE c == seq[i]
                 u == Notify(r, c)
                 t == Replenished(u, c, MinHealthy, ReassignFee)
      <2>1. Good(T, r)  BY <1>1, <1>4
      <2>2. c \in Stored(r) /\ c \in Cids  BY <1>2, <2>1 DEF Since, Keeps, Stored
      <2>3. Sound(u) /\ Since(r, u) /\ Local(r, u, c) /\ Told(u, c)  BY <2>1, <2>2, NotifyOK
      <2>4. c \in Stored(u)  BY <2>2, <2>3 DEF Since, Keeps, Stored
      <2> HIDE DEF u
      <2>5. Sound(t) /\ Since(u, t) /\ Local(u, t, c) /\ Told(t, c)
            BY <2>3, <2>4, ReplenishedOK, StorageAssumption
      <2> HIDE DEF t
      <2>6. Since(s, t)  BY <2>1, <2>3, <2>5, SinceTransitive
      <2>7. Local(r, t, c)  BY <2>3, <2>5, LocalTransitive
      <2>8. Grows(s, t)  BY <2>1, <2>7 DEF Local, Grows
      <2>9. ASSUME NEW j \in T \cup {i} PROVE Told(t, seq[j])
            <3>1. CASE seq[j] = c  BY <2>5, <3>1
            <3>2. CASE seq[j] # c
                  <4>1. j \in T /\ seq[j] \in Cids /\ Told(r, seq[j])  BY <1>2, <2>1, <2>9, <3>2
                  <4> QED  BY <2>1, <2>7, <3>2, <4>1, ToldStays
            <3> QED  BY <3>1, <3>2
      <2>10. Good(T \cup {i}, t)  BY <2>5, <2>6, <2>8, <2>9
      <2> HIDE DEF Good
      <2> QED  BY <1>1, <2>10 DEF t, u
<1>5. <<DOMAIN seq, ReassignEndangered(s)>> \in Q
      BY <1>2, <1>3, <1>4, ReassignFold DEF seq
<1>6. Good(DOMAIN seq, ReassignEndangered(s))
      <2> HIDE DEF Good
      <2> QED  BY <1>1, <1>5
<1>7. \A c \in Endangered(s) : \E j \in DOMAIN seq : seq[j] = c  BY <1>2 DEF ToSet
<1> QED  BY <1>6, <1>7

-----------------------------------------------------------------------------
(* finalize_exits and scan_offline *)

(* A leaver's file is handed on, and it does not take it back. *)
LEMMA HandedOnOK ==
    ASSUME NEW s, Sound(s), NEW n \in Nodes, Out(s, n), NEW c \in Stored(s)
    PROVE  /\ Sound(Notify(HandedOn(s, n, c), c)) /\ Since(s, Notify(HandedOn(s, n, c), c))
           /\ n \notin Notify(HandedOn(s, n, c), c).file[c].replicas
<1> DEFINE f == [s.file[c] EXCEPT !.replicas = @ \ {n}]
           g == [s.file EXCEPT ![c] = f]
           u == [s EXCEPT !.file[c].replicas = @ \ {n}]
           h == HandedOn(s, n, c)
           t == Notify(h, c)
<1>1. s \in States /\ s.file \in [Cids -> FileRecords] /\ c \in Cids /\ s.file[c] \in FileRecords
      BY DEF Sound, States, Stored
<1>2. h = Replenished(u, c, MinHealthy, ReassignFee)  BY DEF HandedOn
<1>3. u = [s EXCEPT !.file = g]  BY <1>1 DEF States
<1>4. /\ f \in FileRecords /\ f.replicas = s.file[c].replicas \ {n}
      /\ f.status = s.file[c].status /\ f.prev = s.file[c].prev
      BY <1>1 DEF FileRecords
<1> HIDE DEF f, u
<1>5. /\ g \in [Cids -> FileRecords]
      /\ \A x \in Cids : /\ g[x].replicas = IF x = c THEN s.file[x].replicas \ {n} ELSE s.file[x].replicas
                         /\ g[x].status = s.file[x].status /\ g[x].prev = s.file[x].prev
      BY <1>1, <1>4
<1> HIDE DEF g
<1>6. /\ u \in States /\ u.order = s.order /\ u.node = s.node /\ u.file = g
      /\ u.balance = s.balance /\ u.stake = s.stake /\ u.unbonding = s.unbonding
      /\ u.fund = s.fund /\ u.rewards = s.rewards
      BY <1>1, <1>3, <1>5 DEF States
<1>7. Sound(u)
      <2>1. Keyed(u)  BY <1>6 DEF Sound, Keyed, Registered
      <2>2. ASSUME NEW x \in Cids
            PROVE  /\ g[x].status = "none" => g[x].replicas = {}
                   /\ g[x].prev = None =>
                         \A m \in g[x].replicas : m \in Registered(s) /\ x \in s.node[m].assigned
            <3>1. g[x].replicas \subseteq s.file[x].replicas  BY <1>5
            <3>2. g[x].status = s.file[x].status /\ g[x].prev = s.file[x].prev  BY <1>5
            <3> QED  BY <3>1, <3>2 DEF Sound, Held
      <2>3. Held(u)  BY <1>6, <2>2 DEF Held, Registered
      <2> QED  BY <1>6, <2>1, <2>3 DEF Sound
<1>8. Since(s, u)  BY <1>5, <1>6 DEF Since, Keeps, Money, Out, Registered
<1>9. c \in Stored(u) /\ n \notin u.file[c].replicas /\ Out(u, n)
      BY <1>5, <1>6 DEF Stored, Out, Registered
<1>10. Sound(h) /\ Since(u, h)  BY <1>2, <1>7, <1>9, ReplenishedOK, StorageAssumption
<1> HIDE DEF h
<1>11. Sound(t) /\ Since(h, t)  BY <1>1, <1>10, NotifyOK
<1> HIDE DEF t
<1>12. Since(u, t)  BY <1>10, <1>11, SinceTransitive
<1>13. n \notin t.file[c].replicas  BY <1>1, <1>9, <1>12 DEF Since, Keeps
<1>14. Since(s, t)  BY <1>8, <1>12, SinceTransitive
<1> QED  BY <1>11, <1>13, <1>14 DEF t, h

(* All its files are. *)
LEMMA HandedOK ==
    ASSUME NEW s, Sound(s), NEW n \in Nodes, Out(s, n)
    PROVE  /\ Sound(Handed(s, n)) /\ Since(s, Handed(s, n))
           /\ \A c \in Cids : Handed(s, n).file[c].prev = None => n \notin Handed(s, n).file[c].replicas
<1> DEFINE files == s.node[n].assigned \cap Stored(s)
           seq == SetToSeq(files)
           Good(T, r) == /\ Sound(r) /\ Since(s, r)
                         /\ \A j \in T : n \notin r.file[seq[j]].replicas
           A == SUBSET (DOMAIN seq)
           Q == {q \in A \X States : Good(q[1], q[2])}
           h == Handed(s, n)
<1>1. \A T, r : <<T, r>> \in Q <=> T \in A /\ Good(T, r)
      <2>1. \A T, r : Good(T, r) => r \in States  BY DEF Sound
      <2> HIDE DEF Good, A
      <2> QED  BY <2>1
<1>2. /\ seq \in Seq(Cids) /\ ToSet(seq) = files
      /\ \A i \in DOMAIN seq : seq[i] \in Stored(s)
      <2>1. files \subseteq Cids /\ files \subseteq Stored(s)  BY DEF Stored
      <2> QED  BY <2>1, Listed
<1> HIDE DEF Q, seq
<1>3. <<{}, s>> \in Q  BY <1>1, SinceItself
<1>4. ASSUME NEW T \in A, NEW i \in DOMAIN seq, NEW r, <<T, r>> \in Q
      PROVE  <<T \cup {i}, Notify(HandedOn(r, n, seq[i]), seq[i])>> \in Q
      <2> DEFINE t == Notify(HandedOn(r, n, seq[i]), seq[i])
      <2>1. Good(T, r)  BY <1>1, <1>4
      <2>2. seq[i] \in Stored(r) /\ Out(r, n)  BY <1>2, <2>1 DEF Since, Keeps, Stored
      <2>3. Sound(t) /\ Since(r, t) /\ n \notin t.file[seq[i]].replicas  BY <2>1, <2>2, HandedOnOK
      <2> HIDE DEF t
      <2>4. Since(s, t)  BY <2>1, <2>3, SinceTransitive
      <2>5. \A x \in Cids : n \notin r.file[x].replicas => n \notin t.file[x].replicas
            BY <2>2, <2>3 DEF Since, Keeps
      <2>6. \A j \in DOMAIN seq : seq[j] \in Cids  BY <1>2
      <2>7. Good(T \cup {i}, t)  BY <2>1, <2>3, <2>4, <2>5, <2>6
      <2> HIDE DEF Good
      <2> QED  BY <1>1, <2>7 DEF t
<1>5. <<DOMAIN seq, h>> \in Q
      BY <1>2, <1>3, <1>4, HandOnFold DEF seq
<1> HIDE DEF h
<1>6. Good(DOMAIN seq, h)
      <2> HIDE DEF Good
      <2> QED  BY <1>1, <1>5
<1>7. ASSUME NEW c \in Cids, h.file[c].prev = None, n \in h.file[c].replicas PROVE FALSE
      <2>1. s.file[c].prev = None /\ n \in s.file[c].replicas  BY <1>6, <1>7 DEF Since, Keeps
      <2>2. c \in s.node[n].assigned /\ s.file[c].status # "none"  BY <2>1 DEF Sound, Held
      <2>3. c \in Stored(s)
            <3>1. s.file[c].status \in {"none", "stored"}  BY DEF Sound, States, FileRecords
            <3> QED  BY <2>2, <3>1 DEF Stored
      <2>4. PICK j \in DOMAIN seq : seq[j] = c  BY <1>2, <2>2, <2>3 DEF ToSet
      <2> QED  BY <1>6, <1>7, <2>4
<1> QED  BY <1>6, <1>7 DEF h

(* Whoever may leave is deleted, once its files are handed on. *)
LEMMA FinalizedOK ==
    ASSUME NEW s, Sound(s), NEW n \in Nodes
    PROVE  Sound(Finalized(s, n)) /\ Since(s, Finalized(s, n))
<1>1. CASE ~MayLeave(s.node[n])  BY <1>1, SinceItself DEF Finalized
<1>2. CASE MayLeave(s.node[n])
      <2> DEFINE h == Handed(s, n)
                 q == RemoveFirst(h.order, n)
                 ub == [h.unbonding EXCEPT ![n] = @ + h.stake[n]]
                 st == [h.stake EXCEPT ![n] = 0]
                 nd == [h.node EXCEPT ![n] = Absent]
                 d == Deleted(h, n)
      <2>1. Finalized(s, n) = d  BY <1>2 DEF Finalized, Handed
      <2>2. Out(s, n)  BY <1>2 DEF MayLeave, Out
      <2>3. /\ Sound(h) /\ Since(s, h)
            /\ \A c \in Cids : h.file[c].prev = None => n \notin h.file[c].replicas
            BY <2>2, HandedOK
      <2> HIDE DEF h
      <2>4. /\ h \in States /\ h.order \in Seq(Nodes) /\ h.node \in [Nodes -> NodeRecords]
            /\ h.stake \in [Nodes -> Nat] /\ h.unbonding \in [Nodes -> Nat] /\ Distinct(h.order)
            /\ h.balance \in [Nodes -> Nat] /\ h.fund \in Nat
            BY <2>3 DEF Sound, States, Keyed
      <2>5. d = [h EXCEPT !.unbonding = ub, !.stake = st, !.node = nd, !.order = q]
            BY <2>4 DEF Deleted, States
      <2>6. q \in Seq(Nodes) /\ Distinct(q) /\ ToSet(q) = ToSet(h.order) \ {n}  BY <2>4, Shorter
      <2>7. Absent \in NodeRecords /\ Absent.assigned = {} /\ Absent.proofAge = 2
            BY StorageAssumption DEF Absent, NodeRecords
      <2>8. ub \in [Nodes -> Nat] /\ st \in [Nodes -> Nat]  BY <2>4
      <2>9. nd \in [Nodes -> NodeRecords] /\ nd[n] = Absent /\ \A m \in Nodes \ {n} : nd[m] = h.node[m]
            BY <2>4, <2>7
      <2>10. SumFunction(ub) + SumFunction(st) = SumFunction(h.unbonding) + SumFunction(h.stake)
            <3>1. SumFunction([h.unbonding EXCEPT ![n] = h.unbonding[n] + h.stake[n]])
                    = SumFunction(h.unbonding) - h.unbonding[n] + (h.unbonding[n] + h.stake[n])
                  <4>1. h.unbonding \in [Nodes -> Int] /\ h.unbonding[n] + h.stake[n] \in Int  BY <2>4
                  <4> QED  BY <4>1, StorageAssumption, TotalPut
            <3>2. SumFunction([h.stake EXCEPT ![n] = 0]) = SumFunction(h.stake) - h.stake[n] + 0
                  <4>1. h.stake \in [Nodes -> Int] /\ 0 \in Int  BY <2>4
                  <4> QED  BY <4>1, StorageAssumption, TotalPut
            <3>3. SumFunction(h.unbonding) \in Int /\ SumFunction(h.stake) \in Int
                  BY <2>4, StorageAssumption, TotalInt
            <3>4. h.unbonding[n] \in Int /\ h.stake[n] \in Int  BY <2>4
            <3> QED  BY <3>1, <3>2, <3>3, <3>4
      <2>11. SumFunction(ub) \in Int /\ SumFunction(st) \in Int /\ SumFunction(h.unbonding) \in Int
             /\ SumFunction(h.stake) \in Int /\ SumFunction(h.balance) \in Int
            <3>1. \A f \in [Nodes -> Nat] : SumFunction(f) \in Int  BY StorageAssumption, TotalInt
            <3> HIDE DEF ub, st
            <3> QED  BY <2>4, <2>8, <3>1
      <2> HIDE DEF q, ub, st, nd, d
      <2>12. /\ d \in States /\ d.order = q /\ d.node = nd /\ d.unbonding = ub /\ d.stake = st
             /\ d.file = h.file /\ d.balance = h.balance /\ d.fund = h.fund /\ d.rewards = h.rewards
            BY <2>4, <2>5, <2>6, <2>8, <2>9 DEF States
      <2>13. Sound(d)
            <3>1. Keyed(d)  BY <2>3, <2>6, <2>9, <2>12 DEF Sound, Keyed, Registered
            <3>2. \A c \in Cids : d.file[c].replicas \subseteq Nodes  BY <2>12 DEF States, FileRecords
            <3>3. Held(d)
                  <4>1. \A c \in Cids : d.file[c].status = "none" => d.file[c].replicas = {}
                        BY <2>3, <2>12 DEF Sound, Held
                  <4>2. ASSUME NEW c \in Cids, d.file[c].prev = None, NEW m \in d.file[c].replicas
                        PROVE  m \in ToSet(d.order) /\ c \in d.node[m].assigned
                        <5>1. m \in ToSet(h.order) /\ c \in h.node[m].assigned
                              BY <2>3, <2>12, <4>2 DEF Sound, Held, Registered
                        <5>2. m # n /\ m \in Nodes  BY <2>3, <2>12, <3>2, <4>2
                        <5> QED  BY <2>6, <2>9, <2>12, <5>1, <5>2
                  <4> QED  BY <4>1, <4>2 DEF Held, Registered
            <3> QED  BY <2>12, <3>1, <3>3 DEF Sound
      <2>14. Since(h, d)
            <3>1. Money(d) = Money(h)  BY SMTT(30), <2>4, <2>10, <2>11, <2>12 DEF Money
            <3>2. \A m \in Nodes : d.node[m].proofAge \in {h.node[m].proofAge, 2}
                  BY <2>7, <2>9, <2>12
            <3>3. \A m \in Nodes : Out(h, m) => Out(d, m) /\ d.node[m].assigned \subseteq h.node[m].assigned
                  BY <2>6, <2>7, <2>9, <2>12 DEF Out, Registered
            <3> QED  BY <2>12, <3>1, <3>2, <3>3 DEF Since, Keeps
      <2> QED  BY <2>1, <2>3, <2>13, <2>14, SinceTransitive
<1> QED  BY <1>1, <1>2

(* Everybody who may leave does. *)
LEMMA FinalizeExitsOK ==
    ASSUME NEW s, Sound(s)
    PROVE  Sound(FinalizeExits(s)) /\ Since(s, FinalizeExits(s))
<1> DEFINE seq == s.order
           Good(r) == Sound(r) /\ Since(s, r)
           A == SUBSET (DOMAIN seq)
           Q == {q \in A \X States : Good(q[2])}
<1>1. \A T, r : <<T, r>> \in Q <=> T \in A /\ Good(r)
      <2>1. \A r : Good(r) => r \in States  BY DEF Sound
      <2> HIDE DEF Good, A
      <2> QED  BY <2>1
<1>2. seq \in Seq(Nodes) /\ \A i \in DOMAIN seq : seq[i] \in Nodes  BY DEF Sound, States
<1> HIDE DEF Q
<1>3. <<{}, s>> \in Q  BY <1>1, SinceItself
<1>4. ASSUME NEW T \in A, NEW i \in DOMAIN seq, NEW r, <<T, r>> \in Q
      PROVE  <<T \cup {i}, Finalized(r, seq[i])>> \in Q
      <2>1. Good(r)  BY <1>1, <1>4
      <2>2. Good(Finalized(r, seq[i]))  BY <1>2, <2>1, FinalizedOK, SinceTransitive
      <2> HIDE DEF Good
      <2> QED  BY <1>1, <2>2
<1>5. <<DOMAIN seq, FinalizeExits(s)>> \in Q  BY <1>2, <1>3, <1>4, LeaveFold
<1> QED  BY <1>1, <1>5

(* The silent and the leaving are marked offline, and their files looked at. *)
LEMMA ScanOK ==
    ASSUME NEW s, Sound(s)
    PROVE  /\ Sound(ScanOffline(s)) /\ Since(s, ScanOffline(s))
           /\ \A n \in Nodes : ScanOffline(s).node[n].leaving = "yes" => ScanOffline(s).node[n].online = "no"
<1> DEFINE nd == [n \in Nodes |-> IF n \in Silent(s) \/ s.node[n].leaving = "yes"
                                  THEN [s.node[n] EXCEPT !.online = "no"] ELSE s.node[n]]
           off == [s EXCEPT !.node = nd]
           t == ForEach(Notify, off, Stored(s))
<1>1. ScanOffline(s) = off \/ ScanOffline(s) = t  BY DEF ScanOffline
<1>2. s \in States /\ s.node \in [Nodes -> NodeRecords]  BY DEF Sound, States
<1>3. ASSUME NEW n \in Nodes
      PROVE  /\ nd[n] \in NodeRecords /\ nd[n].assigned = s.node[n].assigned
             /\ nd[n].leaving = s.node[n].leaving /\ nd[n].proofAge = s.node[n].proofAge
             /\ nd[n].leaving = "yes" => nd[n].online = "no"
             /\ n \notin Registered(s) => nd[n] = s.node[n]
      <2>1. s.node[n] \in NodeRecords  BY <1>2
      <2>2. n \notin Registered(s) => s.node[n].leaving = "no" /\ n \notin Silent(s)
            BY DEF Sound, Keyed, Absent, Silent
      <2> QED  BY <2>1, <2>2 DEF NodeRecords
<1>4. nd \in [Nodes -> NodeRecords]
      <2>1. nd = [n \in Nodes |-> nd[n]]  OBVIOUS
      <2> HIDE DEF nd
      <2> QED  BY <1>3, <2>1
<1> HIDE DEF nd
<1>5. /\ off \in States /\ off.order = s.order /\ off.node = nd /\ off.file = s.file
      /\ off.balance = s.balance /\ off.stake = s.stake /\ off.unbonding = s.unbonding
      /\ off.fund = s.fund /\ off.rewards = s.rewards
      BY <1>2, <1>4 DEF States
<1> HIDE DEF off
<1>6. Sound(off)
      <2>1. Keyed(off)  BY <1>3, <1>5 DEF Sound, Keyed, Registered
      <2>2. \A c \in Cids : s.file[c].replicas \subseteq Nodes  BY DEF Sound, States, FileRecords
      <2>3. Held(off)  BY <1>3, <1>5, <2>2 DEF Sound, Held, Registered
      <2> QED  BY <1>5, <2>1, <2>3 DEF Sound
<1>7. Since(s, off)  BY <1>3, <1>5 DEF Since, Keeps, Money, Out, Registered
<1>8. Sound(t) /\ Since(off, t) /\ Grows(off, t)
      <2>1. Stored(s) \subseteq Cids  BY DEF Stored
      <2> QED  BY <1>6, <2>1, NotifyAllOK
<1> HIDE DEF t
<1>9. Since(s, t)  BY <1>7, <1>8, SinceTransitive
<1>10. \A n \in Nodes : /\ off.node[n].leaving = "yes" => off.node[n].online = "no"
                        /\ t.node[n].leaving = "yes" => t.node[n].online = "no"
      BY <1>3, <1>5, <1>8 DEF Grows
<1> QED  BY <1>1, <1>6, <1>7, <1>8, <1>9, <1>10

-----------------------------------------------------------------------------
(* settle_epoch *)

(* A step on the record of one node that leaves what it holds. *)
LEMMA RecordChanged ==
    ASSUME NEW s, Sound(s), NEW n \in Registered(s), NEW r \in States,
           r.order = s.order, r.file = s.file,
           \A m \in Nodes \ {n} : r.node[m] = s.node[m],
           r.node[n].assigned = s.node[n].assigned
    PROVE  Sound(r)
<1>1. \A m \in Nodes : r.node[m].assigned = s.node[m].assigned  OBVIOUS
<1>2. Keyed(r)  BY DEF Sound, Keyed, Registered
<1>3. \A c \in Cids : s.file[c].replicas \subseteq Nodes  BY DEF Sound, States, FileRecords
<1>4. Held(r)  BY <1>1, <1>3 DEF Sound, Held, Registered
<1> QED  BY <1>2, <1>4 DEF Sound

(* And that leaves whether it leaves and when it proved. *)
LEMMA RecordTouched ==
    ASSUME NEW s, Sound(s), NEW n \in Registered(s), NEW r \in States,
           r.order = s.order, r.file = s.file, Money(r) = Money(s),
           \A m \in Nodes \ {n} : r.node[m] = s.node[m],
           r.node[n].assigned = s.node[n].assigned, r.node[n].leaving = s.node[n].leaving,
           r.node[n].proofAge = s.node[n].proofAge
    PROVE  /\ Sound(r) /\ Keeps(s, r)
           /\ \A m \in Nodes : r.node[m].proofAge = s.node[m].proofAge
<1>1. \A m \in Nodes : /\ r.node[m].assigned = s.node[m].assigned
                       /\ r.node[m].leaving = s.node[m].leaving
                       /\ r.node[m].proofAge = s.node[m].proofAge
      OBVIOUS
<1>2. Keeps(s, r)  BY <1>1 DEF Keeps, Out, Registered
<1> QED  BY <1>1, <1>2, RecordChanged

\* the settlement of one node
Settles(s, r, n) ==
    /\ Sound(r) /\ Keeps(s, r) /\ r.order = s.order
    /\ \A m \in Nodes : r.node[m].proofAge = s.node[m].proofAge
    /\ \A m \in Nodes : \/ r.rewards[m] = s.rewards[m]
                        \/ m = n /\ s.node[n].proofAge = 1 /\ r.rewards[m] = s.rewards[m] + 1

(* A node is rewarded once. *)
LEMMA RewardedOK ==
    ASSUME NEW s, Sound(s), NEW n \in Nodes, n \in Registered(s), s.node[n].proofAge = 1
    PROVE  Settles(s, Rewarded(s, n), n)
<1> DEFINE reward == s.node[n].proofGb * RewardPerGb
           g == [s.node[n] EXCEPT !.fails = 0, !.failAge = 2]
           nd == [s.node EXCEPT ![n] = g]
           b == [s.balance EXCEPT ![n] = @ + reward]
           w == [s.rewards EXCEPT ![n] = @ + 1]
           done == [s EXCEPT !.node[n].fails = 0, !.node[n].failAge = 2]
           paid == [done EXCEPT !.fund = @ - reward, !.balance[n] = @ + reward, !.rewards[n] = @ + 1]
           r == Rewarded(s, n)
<1>1. /\ s \in States /\ s.node \in [Nodes -> NodeRecords] /\ s.node[n] \in NodeRecords
      /\ s.balance \in [Nodes -> Nat] /\ s.stake \in [Nodes -> Nat] /\ s.unbonding \in [Nodes -> Nat]
      /\ s.fund \in Nat /\ s.rewards \in [Nodes -> Nat]
      BY DEF Sound, States
<1>2. reward \in Nat
      <2>1. s.node[n].proofGb \in Nat /\ RewardPerGb \in Nat  BY <1>1, StorageAssumption DEF NodeRecords
      <2> QED  BY <2>1
<1>3. r = done \/ (~(s.fund < reward) /\ r = paid)  BY DEF Rewarded
<1> HIDE DEF reward
<1>4. /\ g \in NodeRecords /\ g.assigned = s.node[n].assigned /\ g.leaving = s.node[n].leaving
      /\ g.proofAge = s.node[n].proofAge
      <2>1. 0 \in 0..SlashAfter /\ 2 \in -1..2  BY StorageAssumption
      <2> DEFINE a == s.node[n]
      <2>2. a \in NodeRecords  BY <1>1
      <2>3. g = [a EXCEPT !.fails = 0, !.failAge = 2]  OBVIOUS
      <2> HIDE DEF a, g
      <2>4. /\ g \in NodeRecords /\ g.assigned = a.assigned /\ g.leaving = a.leaving
            /\ g.proofAge = a.proofAge
            BY <2>1, <2>2, <2>3 DEF NodeRecords
      <2> QED  BY <2>4 DEF a
<1>5. done = [s EXCEPT !.node = nd]  BY <1>1 DEF States
<1> HIDE DEF g, done
<1>6. nd \in [Nodes -> NodeRecords] /\ nd[n] = g /\ \A m \in Nodes \ {n} : nd[m] = s.node[m]
      BY <1>1, <1>4
<1> HIDE DEF nd
<1>7. /\ done \in States /\ done.order = s.order /\ done.node = nd /\ done.file = s.file
      /\ done.balance = s.balance /\ done.stake = s.stake /\ done.unbonding = s.unbonding
      /\ done.fund = s.fund /\ done.rewards = s.rewards
      BY <1>1, <1>5, <1>6 DEF States
<1>8. Settles(s, done, n)
      <2>1. Money(done) = Money(s)  BY <1>7 DEF Money
      <2>2. /\ Sound(done) /\ Keeps(s, done)
            /\ \A m \in Nodes : done.node[m].proofAge = s.node[m].proofAge
            BY <1>4, <1>6, <1>7, <2>1, RecordTouched
      <2> QED  BY <1>7, <2>2 DEF Settles
<1>9. CASE ~(s.fund < reward)
      <2>1. b \in [Nodes -> Nat] /\ w \in [Nodes -> Nat] /\ s.fund - reward \in Nat
            BY <1>1, <1>2, <1>9
      <2>2. paid = [done EXCEPT !.fund = s.fund - reward, !.balance = b, !.rewards = w]
            BY <1>1, <1>7 DEF States
      <2>3. SumFunction(b) = SumFunction(s.balance) + reward
            <3>1. SumFunction([s.balance EXCEPT ![n] = s.balance[n] + reward])
                    = SumFunction(s.balance) - s.balance[n] + (s.balance[n] + reward)
                  <4>1. s.balance \in [Nodes -> Int] /\ s.balance[n] + reward \in Int  BY <1>1, <1>2
                  <4> QED  BY <4>1, StorageAssumption, TotalPut
            <3>2. SumFunction(s.balance) \in Int  BY <1>1, StorageAssumption, TotalInt
            <3>3. s.balance[n] \in Int  BY <1>1
            <3> QED  BY <1>2, <3>1, <3>2, <3>3
      <2>4. \A m \in Nodes : w[m] = IF m = n THEN s.rewards[m] + 1 ELSE s.rewards[m]  BY <1>1
      <2> HIDE DEF b, w, paid
      <2>5. /\ paid \in States /\ paid.order = s.order /\ paid.node = nd /\ paid.file = s.file
            /\ paid.balance = b /\ paid.stake = s.stake /\ paid.unbonding = s.unbonding
            /\ paid.fund = s.fund - reward /\ paid.rewards = w
            BY <1>7, <2>1, <2>2 DEF States
      <2>6. Money(paid) = Money(s)
            <3>1. /\ SumFunction(s.balance) \in Int /\ SumFunction(s.stake) \in Int
                  /\ SumFunction(s.unbonding) \in Int
                  BY <1>1, StorageAssumption, TotalInt
            <3> QED  BY <1>1, <1>2, <2>3, <2>5, <3>1 DEF Money
      <2>7. /\ Sound(paid) /\ Keeps(s, paid)
            /\ \A m \in Nodes : paid.node[m].proofAge = s.node[m].proofAge
            BY <1>4, <1>6, <2>5, <2>6, RecordTouched
      <2>8. \A m \in Nodes : \/ paid.rewards[m] = s.rewards[m]
                             \/ m = n /\ s.node[n].proofAge = 1 /\ paid.rewards[m] = s.rewards[m] + 1
            <3>1. paid.rewards = w  BY <2>5
            <3> QED  BY <2>4, <3>1
      <2>9. paid.order = s.order  BY <2>5
      <2>10. Settles(s, paid, n)  BY <2>7, <2>8, <2>9 DEF Settles
      <2> QED  BY <1>3, <1>8, <2>10
<1> QED  BY <1>3, <1>8, <1>9

(* Or blamed, and slashed. *)
LEMMA BlamedOK ==
    ASSUME NEW s, Sound(s), NEW n \in Nodes, n \in Registered(s)
    PROVE  LET blame == [Blamed(s, n, 1) EXCEPT !.node[n].failAge = 1]
           IN  Settles(s, blame, n) /\ Settles(s, Slashed(blame, n), n)
<1> DEFINE f == IF s.node[n].failAge = 1 THEN s.node[n].fails ELSE Smaller(s.node[n].fails + 1, SlashAfter)
           g == [s.node[n] EXCEPT !.fails = f, !.failAge = 1]
           nd == [s.node EXCEPT ![n] = g]
           blame == [Blamed(s, n, 1) EXCEPT !.node[n].failAge = 1]
           amount == (s.stake[n] * SlashPct) \div 100
           st == [s.stake EXCEPT ![n] = @ - amount]
           g0 == [g EXCEPT !.fails = 0]
           nd0 == [s.node EXCEPT ![n] = g0]
           slash == Slashed(blame, n)
<1>1. /\ s \in States /\ s.node \in [Nodes -> NodeRecords] /\ s.node[n] \in NodeRecords
      /\ s.balance \in [Nodes -> Nat] /\ s.stake \in [Nodes -> Nat] /\ s.unbonding \in [Nodes -> Nat]
      /\ s.fund \in Nat /\ s.rewards \in [Nodes -> Nat] /\ s.stake[n] \in Nat
      BY DEF Sound, States
<1>2. f \in 0..SlashAfter
      <2>1. s.node[n].fails \in 0..SlashAfter /\ SlashAfter \in Nat  BY <1>1, StorageAssumption DEF NodeRecords
      <2> QED  BY <2>1 DEF Smaller
<1>3. blame = [s EXCEPT !.node = nd]
      <2>1. CASE s.node[n].failAge = 1
            <3>1. Blamed(s, n, 1) = s  BY <2>1 DEF Blamed
            <3>2. blame = [s EXCEPT !.node = [s.node EXCEPT ![n] = [s.node[n] EXCEPT !.failAge = 1]]]
                  BY <1>1, <3>1 DEF States
            <3>3. g = [s.node[n] EXCEPT !.failAge = 1]  BY <1>1, <2>1 DEF NodeRecords
            <3> QED  BY <3>2, <3>3
      <2>2. CASE s.node[n].failAge # 1
            <3>1. Blamed(s, n, 1) = [s EXCEPT !.node = [s.node EXCEPT ![n] = [s.node[n] EXCEPT !.fails = f]]]
                  BY <1>1, <2>2 DEF Blamed, States
            <3> DEFINE a == [s.node[n] EXCEPT !.fails = f]
                       na == [s.node EXCEPT ![n] = a]
            <3>2. na[n] = a /\ [na EXCEPT ![n] = g] = nd  BY <1>1
            <3>3. g = [a EXCEPT !.failAge = 1]  BY <1>1 DEF NodeRecords
            <3>4. Blamed(s, n, 1) = [s EXCEPT !.node = na]  BY <3>1
            <3> HIDE DEF a, na, g
            <3>5. blame = [s EXCEPT !.node = [na EXCEPT ![n] = [na[n] EXCEPT !.failAge = 1]]]
                  BY <1>1, <3>4 DEF States
            <3> QED  BY <3>2, <3>3, <3>5
      <2> QED  BY <2>1, <2>2
<1> HIDE DEF f, blame
<1>4. /\ g \in NodeRecords /\ g.assigned = s.node[n].assigned /\ g.leaving = s.node[n].leaving
      /\ g.proofAge = s.node[n].proofAge
      /\ g0 \in NodeRecords /\ g0.assigned = s.node[n].assigned /\ g0.leaving = s.node[n].leaving
      /\ g0.proofAge = s.node[n].proofAge
      <2>1. 0 \in 0..SlashAfter /\ 1 \in -1..2  BY StorageAssumption
      <2> DEFINE a == s.node[n]
      <2>2. a \in NodeRecords  BY <1>1
      <2>3. g = [a EXCEPT !.fails = f, !.failAge = 1]  OBVIOUS
      <2> HIDE DEF a, g
      <2>4. /\ g \in NodeRecords /\ g.assigned = a.assigned /\ g.leaving = a.leaving
            /\ g.proofAge = a.proofAge
            BY <1>2, <2>1, <2>2, <2>3 DEF NodeRecords
      <2> HIDE DEF g0
      <2>5. g0 = [g EXCEPT !.fails = 0]  BY DEF g0
      <2>6. /\ g0 \in NodeRecords /\ g0.assigned = g.assigned /\ g0.leaving = g.leaving
            /\ g0.proofAge = g.proofAge
            BY <2>1, <2>4, <2>5 DEF NodeRecords
      <2> QED  BY <2>4, <2>6 DEF a
<1>5. amount \in Nat /\ s.stake[n] - amount \in Nat
      <2>1. SlashPct \in Nat /\ SlashPct <= 100  BY StorageAssumption
      <2> DEFINE p == s.stake[n] * SlashPct
      <2>2. p \in Nat /\ p <= s.stake[n] * 100  BY <1>1, <2>1
      <2> HIDE DEF p
      <2>3. p \div 100 \in Nat /\ p \div 100 <= s.stake[n]  BY <1>1, <2>2
      <2> QED  BY <1>1, <2>3 DEF p
<1> HIDE DEF g, g0, amount
<1>6. /\ nd \in [Nodes -> NodeRecords] /\ nd[n] = g /\ \A m \in Nodes \ {n} : nd[m] = s.node[m]
      /\ nd0 \in [Nodes -> NodeRecords] /\ nd0[n] = g0 /\ \A m \in Nodes \ {n} : nd0[m] = s.node[m]
      BY <1>1, <1>4
<1>7. /\ blame \in States /\ blame.order = s.order /\ blame.node = nd /\ blame.file = s.file
      /\ blame.balance = s.balance /\ blame.stake = s.stake /\ blame.unbonding = s.unbonding
      /\ blame.fund = s.fund /\ blame.rewards = s.rewards
      <2> HIDE DEF nd, nd0
      <2> QED  BY <1>1, <1>3, <1>6 DEF States
<1>8. slash = [s EXCEPT !.stake = st, !.fund = s.fund + amount, !.node = nd0]
      <2>1. blame.stake[n] = s.stake[n]  BY <1>7
      <2>2. slash = [blame EXCEPT !.stake[n] = @ - amount, !.fund = @ + amount, !.node[n].fails = 0]
            BY <2>1 DEF Slashed, amount
      <2>3. slash = [blame EXCEPT !.stake = st, !.fund = s.fund + amount,
                                  !.node = [nd EXCEPT ![n] = [g EXCEPT !.fails = 0]]]
            BY <1>1, <1>6, <1>7, <2>2 DEF States
      <2>4. [nd EXCEPT ![n] = [g EXCEPT !.fails = 0]] = nd0  BY <1>1, <1>6 DEF g0
      <2> HIDE DEF nd, nd0, st
      <2> QED  BY <1>1, <1>3, <2>3, <2>4 DEF States
<1> HIDE DEF slash
<1>9. st \in [Nodes -> Nat] /\ s.fund + amount \in Nat  BY <1>1, <1>5
<1>10. SumFunction(st) = SumFunction(s.stake) - amount
      <2>1. SumFunction([s.stake EXCEPT ![n] = s.stake[n] - amount])
              = SumFunction(s.stake) - s.stake[n] + (s.stake[n] - amount)
            <3>1. s.stake \in [Nodes -> Int] /\ s.stake[n] - amount \in Int  BY <1>1, <1>5
            <3> QED  BY <3>1, StorageAssumption, TotalPut
      <2>2. SumFunction(s.stake) \in Int  BY <1>1, StorageAssumption, TotalInt
      <2> QED  BY <1>1, <1>5, <2>1, <2>2
<1> HIDE DEF st, nd, nd0
<1>11. /\ slash \in States /\ slash.order = s.order /\ slash.node = nd0 /\ slash.file = s.file
       /\ slash.balance = s.balance /\ slash.stake = st /\ slash.unbonding = s.unbonding
       /\ slash.fund = s.fund + amount /\ slash.rewards = s.rewards
      BY <1>1, <1>6, <1>8, <1>9 DEF States
<1>12. Money(blame) = Money(s) /\ Money(slash) = Money(s)
      <2>1. /\ SumFunction(s.balance) \in Int /\ SumFunction(s.stake) \in Int
            /\ SumFunction(s.unbonding) \in Int
            BY <1>1, StorageAssumption, TotalInt
      <2> QED  BY <1>1, <1>5, <1>7, <1>10, <1>11, <2>1 DEF Money
<1>13. Settles(s, blame, n)
      <2>1. /\ Sound(blame) /\ Keeps(s, blame)
            /\ \A m \in Nodes : blame.node[m].proofAge = s.node[m].proofAge
            BY <1>4, <1>6, <1>7, <1>12, RecordTouched
      <2> QED  BY <1>7, <2>1 DEF Settles
<1>14. Settles(s, slash, n)
      <2>1. /\ Sound(slash) /\ Keeps(s, slash)
            /\ \A m \in Nodes : slash.node[m].proofAge = s.node[m].proofAge
            BY <1>4, <1>6, <1>11, <1>12, RecordTouched
      <2> QED  BY <1>11, <2>1 DEF Settles
<1> QED  BY <1>13, <1>14 DEF slash, blame

(* The settlement of a node. *)
LEMMA SettledNodeOK ==
    ASSUME NEW s, Sound(s), NEW n \in Nodes, n \in Registered(s)
    PROVE  Settles(s, SettledNode(s, n), n)
<1> DEFINE blame == [Blamed(s, n, 1) EXCEPT !.node[n].failAge = 1]
           r == SettledNode(s, n)
<1>1. s.node[n] \in NodeRecords  BY DEF Sound, States
<1>2. s.node[n].leaving \in {"yes", "no"} /\ s.node[n].gb \in Nat  BY <1>1 DEF NodeRecords
<1>3. \/ r = s \/ r = blame \/ r = Slashed(blame, n)
      \/ r = Rewarded(s, n) /\ s.node[n].proofAge = 1
      <2> HIDE DEF blame
      <2>1. CASE s.node[n].leaving = "yes" \/ s.node[n].gb = 0  BY <1>2, <2>1 DEF SettledNode
      <2>2. CASE s.node[n].leaving = "no" /\ s.node[n].gb > 0 /\ ProvedYesterday(s.node[n])
            <3>1. r = Rewarded(s, n)  BY <1>2, <2>2 DEF SettledNode
            <3> QED  BY <2>2, <3>1 DEF ProvedYesterday
      <2>3. CASE ~(s.node[n].leaving = "yes" \/ s.node[n].gb = 0)
                 /\ ~(s.node[n].leaving = "no" /\ s.node[n].gb > 0 /\ ProvedYesterday(s.node[n]))
            BY <2>3 DEF SettledNode, blame
      <2> QED  BY <2>1, <2>2, <2>3
<1>4. Settles(s, s, n)  BY DEF Settles, Keeps
<1>5. Settles(s, blame, n) /\ Settles(s, Slashed(blame, n), n)  BY BlamedOK
<1>6. s.node[n].proofAge = 1 => Settles(s, Rewarded(s, n), n)  BY RewardedOK
<1> HIDE DEF r, blame
<1> QED  BY <1>3, <1>4, <1>5, <1>6 DEF r

(* The settlement of the day rewards nobody twice, and only for a proof of the day. *)
LEMMA SettleOK ==
    ASSUME NEW s, Sound(s), \A n \in Nodes : s.rewards[n] = 0
    PROVE  LET r == FoldLeft(SettledNode, s, s.order)
           IN  /\ Sound(r) /\ Keeps(s, r)
               /\ \A m \in Nodes : r.rewards[m] = 0 \/ (r.rewards[m] = 1 /\ s.node[m].proofAge = 1)
<1> DEFINE seq == s.order
           Good(T, r) ==
              /\ Sound(r) /\ Keeps(s, r) /\ r.order = s.order
              /\ \A m \in Nodes : r.node[m].proofAge = s.node[m].proofAge
              /\ \A m \in Nodes : \/ r.rewards[m] = 0
                                  \/ /\ r.rewards[m] = 1 /\ s.node[m].proofAge = 1
                                     /\ \E j \in T : seq[j] = m
           A == SUBSET (DOMAIN seq)
           Q == {q \in A \X States : Good(q[1], q[2])}
           e == FoldLeft(SettledNode, s, s.order)
<1>1. \A T, r : <<T, r>> \in Q <=> T \in A /\ Good(T, r)
      <2>1. \A T, r : Good(T, r) => r \in States  BY DEF Sound
      <2> HIDE DEF Good, A
      <2> QED  BY <2>1
<1>2. /\ seq \in Seq(Nodes) /\ \A i \in DOMAIN seq : seq[i] \in Nodes /\ seq[i] \in ToSet(seq)
      /\ Distinct(seq)
      BY DEF Sound, States, Keyed, ToSet
<1> HIDE DEF Q
<1>3. <<{}, s>> \in Q  BY <1>1 DEF Keeps
<1>4. ASSUME NEW T \in A, NEW i \in DOMAIN seq, NEW r, i \notin T /\ <<T, r>> \in Q
      PROVE  <<T \cup {i}, SettledNode(r, seq[i])>> \in Q
      <2> DEFINE n == seq[i]
                 t == SettledNode(r, n)
      <2>1. Good(T, r)  BY <1>1, <1>4
      <2>2. n \in Nodes /\ n \in Registered(r)  BY <1>2, <2>1 DEF Registered
      <2>3. Settles(r, t, n)  BY <2>1, <2>2, SettledNodeOK
      <2>4. \A j \in T : seq[j] # n  BY <1>2, <1>4 DEF Distinct
      <2>5. r.rewards[n] = 0  BY <2>1, <2>2, <2>4
      <2> HIDE DEF t, n
      <2>6. Sound(t) /\ Keeps(s, t) /\ t.order = s.order
            /\ \A m \in Nodes : t.node[m].proofAge = s.node[m].proofAge
            BY <2>1, <2>3 DEF Settles, Keeps
      <2>7. ASSUME NEW m \in Nodes
            PROVE  \/ t.rewards[m] = 0
                   \/ /\ t.rewards[m] = 1 /\ s.node[m].proofAge = 1
                      /\ \E j \in T \cup {i} : seq[j] = m
            <3>1. CASE t.rewards[m] = r.rewards[m]  BY <2>1, <3>1
            <3>2. CASE m = n /\ r.node[n].proofAge = 1 /\ t.rewards[m] = r.rewards[m] + 1
                  BY <2>1, <2>2, <2>5, <3>2 DEF n
            <3> QED  BY <2>3, <3>1, <3>2 DEF Settles
      <2>8. Good(T \cup {i}, t)  BY <2>6, <2>7
      <2> HIDE DEF Good
      <2> QED  BY <1>1, <2>8 DEF t, n
<1>5. <<DOMAIN seq, e>> \in Q  BY <1>2, <1>3, <1>4, SettleFold
<1> HIDE DEF e
<1>6. Good(DOMAIN seq, e)
      <2> HIDE DEF Good
      <2> QED  BY <1>1, <1>5
<1> QED  BY <1>6 DEF e

-----------------------------------------------------------------------------
(* The invariant: the state is sound, NOVA adds up, the last proof of a node is *)
(* one it made, and before the settlement of the day nobody has its reward.     *)
IInv ==
    /\ Sound(Now) /\ NovaAddsUp
    /\ proven \in [Nodes -> SUBSET Int]
    /\ \A n \in Nodes : node[n].proofAge # 2 => node[n].proofAge \in proven[n]
    /\ \A n \in Nodes : rewards[n] = 0 \/ (rewards[n] = 1 /\ settled = "yes" /\ 1 \in proven[n])

(* Now in its parts. *)
LEMMA NowIs ==
    ASSUME Sound(Now)
    PROVE  /\ order \in Seq(Nodes) /\ node \in [Nodes -> NodeRecords] /\ file \in [Cids -> FileRecords]
           /\ balance \in [Nodes -> Nat] /\ stake \in [Nodes -> Nat] /\ unbonding \in [Nodes -> Nat]
           /\ fund \in Nat /\ rewards \in [Nodes -> Nat]
           /\ Now.order = order /\ Now.node = node /\ Now.file = file /\ Now.balance = balance
           /\ Now.stake = stake /\ Now.unbonding = unbonding /\ Now.fund = fund /\ Now.rewards = rewards
BY DEF Sound, States, Now

(* A step that takes effect. *)
LEMMA Becomes ==
    ASSUME NEW r, r \in States, Become(r)
    PROVE  Now' = r
BY DEF Become, States, Now

(* It holds at the start. *)
LEMMA InitInv == Init => IInv
<1> SUFFICES ASSUME Init PROVE IInv  OBVIOUS
<1> USE DEF Init
<1>1. Absent \in NodeRecords /\ NoFile \in FileRecords
      BY StorageAssumption DEF Absent, NoFile, NodeRecords, FileRecords
<1>2. Now \in States
      <2>1. order \in Seq(Nodes) /\ node \in [Nodes -> NodeRecords] /\ file \in [Cids -> FileRecords]
            BY <1>1
      <2>2. /\ balance \in [Nodes -> Nat] /\ stake \in [Nodes -> Nat] /\ unbonding \in [Nodes -> Nat]
            /\ fund \in Nat /\ rewards \in [Nodes -> Nat]
            BY StorageAssumption
      <2> QED  BY <2>1, <2>2 DEF Now, States
<1>3. Keyed(Now)  BY DEF Now, Keyed, Distinct
<1>4. Held(Now)  BY DEF Now, Held, NoFile
<1>5. NovaAddsUp
      <2>1. SumFunction([n \in Nodes |-> 0]) = 0  BY StorageAssumption, TotalZero
      <2>2. SumFunction(Wealth) \in Int  BY StorageAssumption, TotalInt
      <2> QED  BY <2>1, <2>2, StorageAssumption DEF NovaAddsUp
<1>6. \A n \in Nodes : node[n].proofAge = 2 /\ rewards[n] = 0  BY DEF Absent
<1> QED  BY <1>2, <1>3, <1>4, <1>5, <1>6 DEF IInv, Sound
-----------------------------------------------------------------------------
(* The steps. *)

(* The next state in its parts. *)
LEMMA NextIs ==
    /\ Now'.order = order' /\ Now'.node = node' /\ Now'.file = file' /\ Now'.balance = balance'
    /\ Now'.stake = stake' /\ Now'.unbonding = unbonding' /\ Now'.fund = fund'
    /\ Now'.rewards = rewards'
BY DEF Now

\* no leaver has taken a file
NoneTaken == \A n \in Nodes : node[n].leaving = "yes" => node'[n].assigned \subseteq node[n].assigned

(* The invariant after a step, in terms of the state it leads to. *)
LEMMA InvAfter ==
    ASSUME IInv, NEW r, r = Now', Sound(r), Money(r) = Money(Now),
           proven' \in [Nodes -> SUBSET Int],
           \A n \in Nodes : node'[n].proofAge # 2 => node'[n].proofAge \in proven'[n],
           \A n \in Nodes : \/ rewards'[n] = 0
                            \/ rewards'[n] = 1 /\ settled' = "yes" /\ 1 \in proven'[n]
    PROVE  IInv'
<1>1. Sound(Now)'  BY DEF Sound, Keyed, Held, States, Registered, Distinct, Now
<1>2. NovaAddsUp'  BY NextIs, NowIs DEF IInv, NovaAddsUp, Money
<1> QED  BY <1>1, <1>2 DEF IInv

(* A step that makes no proof and gives no reward. *)
LEMMA InvKept ==
    ASSUME IInv, NEW r, r = Now', Sound(r), Money(r) = Money(Now), UNCHANGED <<history, settled>>,
           \A n \in Nodes : node'[n].proofAge \in {node[n].proofAge, 2}
    PROVE  IInv'
<1>1. proven' = proven /\ rewards' = rewards /\ settled' = settled  BY DEF history
<1> QED  BY <1>1, InvAfter DEF IInv

(* A maintenance, or a part of one. *)
LEMMA InvPassed ==
    ASSUME IInv, NEW r, Sound(r), Keeps(Now, r), Become(r), proven' = proven,
           \A n \in Nodes : \/ r.rewards[n] = 0
                            \/ r.rewards[n] = 1 /\ settled' = "yes" /\ 1 \in proven[n]
    PROVE  IInv' /\ NoneTaken
<1>1. r \in States /\ Money(r) = Money(Now)  BY DEF Sound, Keeps
<1>2. r = Now'  BY <1>1, Becomes
<1>3. Now.node = node /\ node' = r.node /\ rewards' = r.rewards  BY DEF Now, Become
<1>4. \A n \in Nodes : r.node[n].proofAge \in {node[n].proofAge, 2}  BY <1>3 DEF Keeps
<1>5. NoneTaken  BY <1>3 DEF NoneTaken, Keeps, Out
<1> QED  BY <1>1, <1>2, <1>3, <1>4, <1>5, InvAfter DEF IInv

(* One that rewards nobody. *)
LEMMA InvServed ==
    ASSUME IInv, NEW r, Sound(r), Since(Now, r), Become(r), proven' = proven,
           settled' = settled \/ settled' = "yes"
    PROVE  IInv' /\ NoneTaken
<1>1. Keeps(Now, r) /\ r.rewards = rewards  BY DEF Since, Now
<1> QED  BY <1>1, InvPassed DEF IInv
(* The settlement of yesterday. *)
LEMMA SettleEpochOK ==
    ASSUME IInv
    PROVE  /\ Sound(SettleEpoch(Now)) /\ Keeps(Now, SettleEpoch(Now))
           /\ \A n \in Nodes : \/ SettleEpoch(Now).rewards[n] = 0
                               \/ SettleEpoch(Now).rewards[n] = 1 /\ 1 \in proven[n]
<1>1. Sound(Now) /\ Now.node = node /\ Now.rewards = rewards  BY DEF IInv, Now
<1>2. CASE settled = "yes"
      <2>1. SettleEpoch(Now) = Now  BY <1>2 DEF SettleEpoch
      <2> QED  BY <1>1, <2>1 DEF IInv, Keeps
<1>3. CASE settled # "yes"
      <2> DEFINE r == FoldLeft(SettledNode, Now, Now.order)
      <2>1. SettleEpoch(Now) = r  BY <1>3 DEF SettleEpoch
      <2>2. \A n \in Nodes : Now.rewards[n] = 0  BY <1>1, <1>3 DEF IInv
      <2>3. /\ Sound(r) /\ Keeps(Now, r)
            /\ \A m \in Nodes : r.rewards[m] = 0 \/ (r.rewards[m] = 1 /\ Now.node[m].proofAge = 1)
            BY <1>1, <2>2, SettleOK
      <2> HIDE DEF r
      <2>4. \A m \in Nodes : Now.node[m].proofAge = 1 => 1 \in proven[m]  BY <1>1 DEF IInv
      <2> QED  BY <2>1, <2>3, <2>4
<1> QED  BY <1>2, <1>3

(* A node claims a file. *)
LEMMA ClaimInv ==
    ASSUME IInv, NEW n \in Nodes, NEW c \in Cids, Claim(n, c)
    PROVE  IInv' /\ NoneTaken
<1> DEFINE r == Claimed(Now, n, c)
<1>1. Become(r) /\ proven' = proven /\ settled' = settled  BY DEF Claim, today
<1>2. c \in Stored(Now) /\ Sound(Now)  BY DEF Claim, Stored, Now, IInv
<1>3. Sound(r) /\ Since(Now, r)  BY <1>2, ClaimedOK
<1> HIDE DEF r
<1> QED  BY <1>1, <1>3, InvServed

(* Settlement, hot files or endangered files, asked for by a node. *)
LEMMA UpkeepInv ==
    ASSUME IInv, NEW n \in Nodes, NEW op, Upkeep(n, op)
    PROVE  IInv' /\ NoneTaken
<1>1. Sound(Now) /\ proven' = proven  BY DEF Upkeep, IInv
<1>2. CASE Become(SettleEpoch(Now)) /\ settled' = "yes"  BY <1>1, <1>2, SettleEpochOK, InvPassed
<1>3. CASE Become(ProtectHot(Now, hot[1])) /\ settled' = settled
      BY <1>1, <1>3, ProtectHotOK, InvServed
<1>4. CASE Become(ReassignEndangered(Now)) /\ settled' = settled
      BY <1>1, <1>4, ReassignOK, InvServed
<1> QED  BY <1>2, <1>3, <1>4 DEF Upkeep

(* What the parts of a daily maintenance keep, all of it keeps. *)
LEMMA MaintainedOK ==
    ASSUME NEW s, Sound(s), NEW cids
    PROVE  LET r == ReassignEndangered(ProtectHot(ScanOffline(FinalizeExits(s)), cids))
           IN  Sound(r) /\ Since(s, r)
<1> DEFINE a == FinalizeExits(s)
           b == ScanOffline(a)
           p == ProtectHot(b, cids)
           r == ReassignEndangered(p)
<1>1. Sound(a) /\ Since(s, a)  BY FinalizeExitsOK
<1> HIDE DEF a
<1>2. Sound(b) /\ Since(a, b)  BY <1>1, ScanOK
<1> HIDE DEF b
<1>3. Sound(p) /\ Since(b, p)  BY <1>2, ProtectHotOK
<1> HIDE DEF p
<1>4. Sound(r) /\ Since(p, r)  BY <1>3, ReassignOK
<1> HIDE DEF r
<1>5. Sound(r) /\ Since(s, r)  BY <1>1, <1>2, <1>3, <1>4, SinceTransitive
<1> QED  BY <1>5 DEF r, p, b, a

(* The daily maintenance. *)
LEMMA MaintenanceInv ==
    ASSUME IInv, Maintenance
    PROVE  IInv' /\ NoneTaken
<1> DEFINE s == SettleEpoch(Now)
           r == ReassignEndangered(ProtectHot(ScanOffline(FinalizeExits(s)), hot[2]))
<1>1. Become(r) /\ settled' = "yes" /\ proven' = proven  BY DEF Maintenance
<1>2. /\ Sound(s) /\ Keeps(Now, s)
      /\ \A n \in Nodes : s.rewards[n] = 0 \/ (s.rewards[n] = 1 /\ 1 \in proven[n])
      BY SettleEpochOK
<1> HIDE DEF s
<1>3. Sound(r) /\ Since(s, r)  BY <1>2, MaintainedOK
<1> HIDE DEF r
<1>4. Keeps(Now, r) /\ r.rewards = s.rewards
      <2>1. Since(s, r) /\ Keeps(Now, s)  BY <1>2, <1>3
      <2> QED  BY <2>1 DEF Since, Keeps
<1> QED  BY <1>1, <1>2, <1>3, <1>4, InvPassed

(* A round of the monitor. *)
LEMMA MonitorInv ==
    ASSUME IInv, Monitor
    PROVE  IInv' /\ NoneTaken
<1> DEFINE s == ScanOffline(Now)
           r == ReassignEndangered(s)
<1>1. Become(r) /\ proven' = proven /\ settled' = settled  BY DEF Monitor, today
<1>2. Sound(s) /\ Since(Now, s)  BY ScanOK DEF IInv
<1> HIDE DEF s
<1>3. Sound(r) /\ Since(s, r)  BY <1>2, ReassignOK
<1> HIDE DEF r
<1> QED  BY <1>1, <1>2, <1>3, SinceTransitive, InvServed
(* A step on the record of one node, and on the books. *)
LEMMA RecordPut ==
    ASSUME IInv, NEW r, r = Now', NEW n \in Nodes, n \in ToSet(order),
           NEW g \in NodeRecords, g.assigned = node[n].assigned, node' = [node EXCEPT ![n] = g],
           UNCHANGED <<order, file, unbonding, fund, rewards>>,
           balance' \in [Nodes -> Nat], stake' \in [Nodes -> Nat]
    PROVE  Sound(r)
<1>1. Sound(Now) /\ node \in [Nodes -> NodeRecords] /\ Now.node = node  BY NowIs DEF IInv
<1>2. node' \in [Nodes -> NodeRecords] /\ node'[n] = g /\ \A m \in Nodes \ {n} : node'[m] = node[m]
      BY <1>1
<1>3. r \in States
      <2>1. /\ order' \in Seq(Nodes) /\ file' \in [Cids -> FileRecords]
            /\ unbonding' \in [Nodes -> Nat] /\ fund' \in Nat /\ rewards' \in [Nodes -> Nat]
            BY <1>1, NowIs
      <2> QED  BY <1>2, <2>1 DEF Now, States
<1>4. r.order = Now.order /\ r.file = Now.file /\ r.node = node'  BY NextIs DEF Now
<1>5. n \in Registered(Now)  BY DEF Registered, Now
<1>6. \A m \in Nodes \ {n} : r.node[m] = Now.node[m]  BY <1>1, <1>2, <1>4
<1>7. r.node[n].assigned = Now.node[n].assigned  BY <1>1, <1>2, <1>4
<1>8. Sound(Now) /\ r.order = Now.order /\ r.file = Now.file  BY <1>1, <1>4
<1> QED
      <2> DEFINE s == Now
      <2>1. /\ Sound(s) /\ n \in Registered(s) /\ r.order = s.order /\ r.file = s.file
            /\ r.node[n].assigned = s.node[n].assigned
            /\ \A m \in Nodes \ {n} : r.node[m] = s.node[m]
            BY <1>5, <1>6, <1>7, <1>8
      <2> HIDE DEF s
      <2> QED  BY <1>3, <2>1, RecordChanged

(* A mark on the record of one node. *)
LEMMA MarkedInv ==
    ASSUME IInv, NEW r, r = Now', NEW n \in Nodes, n \in ToSet(order),
           NEW g \in NodeRecords, g.assigned = node[n].assigned, g.proofAge = node[n].proofAge,
           node' = [node EXCEPT ![n] = g],
           UNCHANGED <<order, file, money, settled, history>>
    PROVE  IInv' /\ NoneTaken
<1>1. /\ UNCHANGED <<order, file, balance, stake, unbonding, fund, rewards>>
      /\ Sound(Now) /\ node \in [Nodes -> NodeRecords]
      /\ balance \in [Nodes -> Nat] /\ stake \in [Nodes -> Nat]
      BY NowIs DEF IInv, money, history
<1>2. Sound(r)  BY <1>1, RecordPut
<1>3. Money(r) = Money(Now)  BY <1>1, NextIs DEF Money, Now
<1>4. \A m \in Nodes : /\ node'[m].proofAge \in {node[m].proofAge, 2}
                       /\ node'[m].assigned = node[m].assigned
      BY <1>1
<1> QED  BY <1>2, <1>3, <1>4, InvKept DEF NoneTaken

(* A node is heard of. *)
LEMMA HeartbeatInv ==
    ASSUME IInv, NEW r, r = Now', NEW n \in Nodes, Heartbeat(n)
    PROVE  IInv' /\ NoneTaken
<1> DEFINE g == [node[n] EXCEPT !.beat = "fresh", !.online = "yes"]
<1>1. node \in [Nodes -> NodeRecords]  BY NowIs DEF IInv
<1>2. node[n] \in NodeRecords  BY <1>1
<1>3. g \in NodeRecords /\ g.assigned = node[n].assigned /\ g.proofAge = node[n].proofAge
      BY <1>2 DEF NodeRecords
<1>4. node' = [node EXCEPT ![n] = g]  BY <1>1 DEF Heartbeat
<1>5. n \in ToSet(order) /\ UNCHANGED <<order, file, money, settled, history>>  BY DEF Heartbeat, today
<1> HIDE DEF g
<1> QED  BY <1>3, <1>4, <1>5, MarkedInv

(* A node gives notice. *)
LEMMA ExitNoticeInv ==
    ASSUME IInv, NEW r, r = Now', NEW n \in Nodes, ExitNotice(n)
    PROVE  IInv' /\ NoneTaken
<1> DEFINE g == [node[n] EXCEPT !.leaving = "yes", !.wait = ExitDays, !.online = "no"]
<1>1. node \in [Nodes -> NodeRecords]  BY NowIs DEF IInv
<1>2. node[n] \in NodeRecords /\ ExitDays \in 0..ExitDays  BY <1>1, StorageAssumption
<1>3. g \in NodeRecords /\ g.assigned = node[n].assigned /\ g.proofAge = node[n].proofAge
      BY <1>2 DEF NodeRecords
<1>4. node' = [node EXCEPT ![n] = g]  BY <1>1 DEF ExitNotice
<1>5. n \in ToSet(order) /\ UNCHANGED <<order, file, money, settled, history>>  BY DEF ExitNotice, today
<1> HIDE DEF g
<1> QED  BY <1>3, <1>4, <1>5, MarkedInv

(* A node is not heard of. *)
LEMMA FallSilentInv ==
    ASSUME IInv, NEW r, r = Now', NEW n \in Nodes, FallSilent(n)
    PROVE  IInv' /\ NoneTaken
<1> DEFINE g == [node[n] EXCEPT !.beat = "stale"]
<1>1. node \in [Nodes -> NodeRecords]  BY NowIs DEF IInv
<1>2. node[n] \in NodeRecords  BY <1>1
<1>3. g \in NodeRecords /\ g.assigned = node[n].assigned /\ g.proofAge = node[n].proofAge
      BY <1>2 DEF NodeRecords
<1>4. node' = [node EXCEPT ![n] = g]  BY <1>1 DEF FallSilent
<1>5. n \in ToSet(order) /\ UNCHANGED <<order, file, money, settled, history>>  BY DEF FallSilent, today
<1> HIDE DEF g
<1> QED  BY <1>3, <1>4, <1>5, MarkedInv

(* A proof, accepted or not. *)
LEMMA ProveInv ==
    ASSUME IInv, NEW r, r = Now', NEW n \in Nodes, NEW d \in -1..1, NEW match, Prove(n, d, match)
    PROVE  IInv' /\ NoneTaken
<1>1. /\ Sound(Now) /\ node \in [Nodes -> NodeRecords] /\ Now.node = node
      /\ balance \in [Nodes -> Nat] /\ stake \in [Nodes -> Nat]
      BY NowIs DEF IInv
<1>2. node[n] \in NodeRecords  BY <1>1
<1>3. n \in ToSet(order) /\ UNCHANGED <<order, file, money, settled, rewards>>  BY DEF Prove, today
<1>4. UNCHANGED <<order, file, balance, stake, unbonding, fund, rewards>>  BY <1>3 DEF money
<1>5. Money(r) = Money(Now)  BY <1>4, NextIs DEF Money, Now
<1>6. CASE /\ node' = [node EXCEPT ![n] = [@ EXCEPT !.proofAge = d, !.beat = "fresh",
                           !.online = "yes", !.failAge = 2, !.proofGb = node[n].gb]]
           /\ proven' = [proven EXCEPT ![n] = @ \cup {d}]
      <2> DEFINE g == [node[n] EXCEPT !.proofAge = d, !.beat = "fresh", !.online = "yes",
                                      !.failAge = 2, !.proofGb = node[n].gb]
      <2>1. g \in NodeRecords /\ g.assigned = node[n].assigned /\ g.proofAge = d
            <3>1. d \in -1..2 /\ 2 \in -1..2 /\ node[n].gb \in Nat  BY <1>2 DEF NodeRecords
            <3> QED  BY <1>2, <3>1 DEF NodeRecords
      <2>2. node' = [node EXCEPT ![n] = g]  BY <1>1, <1>6
      <2> HIDE DEF g
      <2>3. Sound(r)  BY <1>1, <1>3, <1>4, <2>1, <2>2, RecordPut
      <2>4. \A m \in Nodes : /\ node'[m].proofAge = IF m = n THEN d ELSE node[m].proofAge
                             /\ node'[m].assigned = node[m].assigned
            BY <1>1, <2>1, <2>2
      <2>5. /\ proven' \in [Nodes -> SUBSET Int] /\ d \in proven'[n]
            /\ \A m \in Nodes : proven[m] \subseteq proven'[m]
            BY <1>6 DEF IInv
      <2> QED  BY <1>3, <1>5, <2>3, <2>4, <2>5, InvAfter DEF IInv, NoneTaken
<1>7. CASE /\ node' = [node EXCEPT ![n] = [Blamed(Now, n, d).node[n] EXCEPT !.failAge = d]]
           /\ proven' = proven
      <2> DEFINE b == Blamed(Now, n, d).node[n]
                 g == [b EXCEPT !.failAge = d]
      <2>1. b = node[n] \/ b = [node[n] EXCEPT !.fails = Smaller(@ + 1, SlashAfter)]
            BY <1>1 DEF Blamed, Now
      <2>2. Smaller(node[n].fails + 1, SlashAfter) \in 0..SlashAfter
            BY <1>2, StorageAssumption DEF NodeRecords, Smaller
      <2>3. b \in NodeRecords /\ b.assigned = node[n].assigned /\ b.proofAge = node[n].proofAge
            BY <1>2, <2>1, <2>2 DEF NodeRecords
      <2>4. node' = [node EXCEPT ![n] = g]  BY <1>7
      <2> HIDE DEF b
      <2>5. g \in NodeRecords /\ g.assigned = node[n].assigned /\ g.proofAge = node[n].proofAge
            BY <2>3 DEF NodeRecords
      <2> HIDE DEF g
      <2> QED  BY <1>3, <1>7, <2>4, <2>5, MarkedInv DEF history
<1> QED  BY <1>6, <1>7 DEF Prove
(* NOVA is staked out of the balance. *)
LEMMA StakedMoney ==
    ASSUME IInv, NEW r, r = Now', NEW n \in Nodes, NEW amt \in Nat, WithinLimits(n, amt),
           balance' = [balance EXCEPT ![n] = @ - amt], stake' = [stake EXCEPT ![n] = @ + amt],
           UNCHANGED <<unbonding, fund>>
    PROVE  balance' \in [Nodes -> Nat] /\ stake' \in [Nodes -> Nat] /\ Money(r) = Money(Now)
<1>1. balance \in [Nodes -> Nat] /\ stake \in [Nodes -> Nat] /\ unbonding \in [Nodes -> Nat] /\ fund \in Nat
      BY NowIs DEF IInv
<1>2. balance[n] - amt \in Nat /\ stake[n] + amt \in Nat  BY <1>1 DEF WithinLimits
<1>3. balance' \in [Nodes -> Nat] /\ stake' \in [Nodes -> Nat]  BY <1>1, <1>2
<1>4. IsFiniteSet(Nodes)  BY StorageAssumption
<1>5. SumFunction(balance') = SumFunction(balance) - balance[n] + (balance[n] - amt)
      <2>1. balance \in [Nodes -> Int] /\ balance[n] - amt \in Int  BY <1>1, <1>2
      <2>2. SumFunction([balance EXCEPT ![n] = balance[n] - amt])
              = SumFunction(balance) - balance[n] + (balance[n] - amt)
            BY <1>4, <2>1, TotalPut
      <2> QED  BY <2>2
<1>6. SumFunction(stake') = SumFunction(stake) - stake[n] + (stake[n] + amt)
      <2>1. stake \in [Nodes -> Int] /\ stake[n] + amt \in Int  BY <1>1, <1>2
      <2>2. SumFunction([stake EXCEPT ![n] = stake[n] + amt])
              = SumFunction(stake) - stake[n] + (stake[n] + amt)
            BY <1>4, <2>1, TotalPut
      <2> QED  BY <2>2
<1>7. SumFunction(balance) \in Int /\ SumFunction(stake) \in Int /\ SumFunction(unbonding) \in Int
      BY <1>1, <1>4, TotalInt
<1>8. Money(r) = SumFunction(balance') + SumFunction(stake') + SumFunction(unbonding) + fund
      BY NextIs DEF Money
<1>9. Money(Now) = SumFunction(balance) + SumFunction(stake) + SumFunction(unbonding) + fund
      BY DEF Money, Now
<1>10. balance[n] \in Int /\ stake[n] \in Int /\ fund \in Int /\ amt \in Int  BY <1>1
<1>11. Money(r) = Money(Now)  BY <1>5, <1>6, <1>7, <1>8, <1>9, <1>10
<1> QED  BY <1>3, <1>11

(* A node registers, unless it is registered. *)
LEMMA RegisteredOK ==
    ASSUME IInv, NEW r, r = Now', NEW n \in Nodes, NEW quota \in Nat, AutoRegister(n, quota),
           UNCHANGED <<file, unbonding, fund, rewards>>,
           balance' \in [Nodes -> Nat], stake' \in [Nodes -> Nat]
    PROVE  /\ Sound(r)
           /\ \A m \in Nodes : node'[m].proofAge = node[m].proofAge
                               /\ node'[m].assigned = node[m].assigned
<1>1. /\ Sound(Now) /\ order \in Seq(Nodes) /\ node \in [Nodes -> NodeRecords]
      /\ file \in [Cids -> FileRecords] /\ unbonding \in [Nodes -> Nat] /\ fund \in Nat
      /\ rewards \in [Nodes -> Nat]
      BY NowIs DEF IInv
<1>2. /\ Distinct(order) /\ \A m \in Nodes : m \notin ToSet(order) => node[m] = Absent
      /\ Held(Now)
      BY <1>1 DEF Sound, Keyed, Registered, Now
<1>3. /\ order' \in Seq(Nodes) /\ Distinct(order') /\ node' \in [Nodes -> NodeRecords]
      /\ ToSet(order) \subseteq ToSet(order')
      /\ \A m \in Nodes : m \notin ToSet(order') => node'[m] = Absent
      /\ \A m \in Nodes : node'[m].proofAge = node[m].proofAge /\ node'[m].assigned = node[m].assigned
      <2>1. CASE n \in ToSet(order)  BY <1>1, <1>2, <2>1 DEF AutoRegister
      <2>2. CASE n \notin ToSet(order)
            <3> DEFINE g == [Absent EXCEPT !.quota = quota, !.online = "yes"]
            <3>1. g \in NodeRecords /\ g.proofAge = Absent.proofAge /\ g.assigned = Absent.assigned
                  <4>1. Absent \in NodeRecords  BY StorageAssumption DEF Absent, NodeRecords
                  <4> QED  BY <4>1 DEF NodeRecords
            <3>2. order' = Append(order, n) /\ node' = [node EXCEPT ![n] = g]
                  BY <2>2 DEF AutoRegister
            <3> HIDE DEF g
            <3>3. order' \in Seq(Nodes) /\ Distinct(order') /\ ToSet(order') = ToSet(order) \cup {n}
                  BY <1>1, <1>2, <2>2, <3>2, Longer
            <3>4. node' \in [Nodes -> NodeRecords] /\ node'[n] = g /\ \A m \in Nodes \ {n} : node'[m] = node[m]
                  BY <1>1, <3>1, <3>2
            <3>5. node[n] = Absent  BY <1>2, <2>2
            <3> QED  BY <1>2, <3>1, <3>3, <3>4, <3>5
      <2> QED  BY <2>1, <2>2
<1>4. r \in States  BY <1>1, <1>3 DEF Now, States
<1>5. Keyed(r)  BY <1>3, NextIs DEF Keyed, Registered
<1>6. Held(r)
      <2>1. file' = file  OBVIOUS
      <2>2. \A c \in Cids : file[c].replicas \subseteq Nodes  BY <1>1 DEF FileRecords
      <2>3. \A c \in Cids :
              /\ file[c].status = "none" => file[c].replicas = {}
              /\ file[c].prev = None =>
                    \A m \in file[c].replicas : m \in ToSet(order) /\ c \in node[m].assigned
            BY <1>2 DEF Held, Registered, Now
      <2>4. \A c \in Cids : file[c].prev = None =>
              \A m \in file[c].replicas : m \in ToSet(order') /\ c \in node'[m].assigned
            BY <1>3, <2>2, <2>3
      <2> QED  BY <2>1, <2>3, <2>4, NextIs DEF Held, Registered
<1> QED  BY <1>3, <1>4, <1>5, <1>6 DEF Sound

(* A stake, which registers the node. *)
LEMMA StakeInv ==
    ASSUME IInv, NEW r, r = Now', NEW n \in Nodes, NEW amt \in StakeAmounts, Stake(n, amt)
    PROVE  IInv' /\ NoneTaken
<1>1. amt \in Nat /\ BaseQuota \in Nat  BY StorageAssumption
<1>2. balance' \in [Nodes -> Nat] /\ stake' \in [Nodes -> Nat] /\ Money(r) = Money(Now)
      BY <1>1, StakedMoney DEF Stake
<1>3. UNCHANGED <<file, unbonding, fund, rewards>> /\ UNCHANGED <<history, settled>>
      BY DEF Stake, history, today
<1>4. /\ Sound(r)
      /\ \A m \in Nodes : node'[m].proofAge = node[m].proofAge /\ node'[m].assigned = node[m].assigned
      BY <1>1, <1>2, <1>3, RegisteredOK DEF Stake
<1> QED  BY <1>2, <1>3, <1>4, InvKept DEF NoneTaken

(* A storage provider registers. *)
LEMMA RegisterProviderInv ==
    ASSUME IInv, NEW r, r = Now', NEW n \in Nodes, NEW capacity \in Capacities,
           RegisterProvider(n, capacity)
    PROVE  IInv' /\ NoneTaken
<1>1. Larger(BaseQuota, capacity) \in Nat  BY StorageAssumption DEF Larger
<1>2. /\ UNCHANGED <<file, balance, stake, unbonding, fund, rewards>> /\ UNCHANGED <<history, settled>>
      /\ balance \in [Nodes -> Nat] /\ stake \in [Nodes -> Nat]
      BY NowIs DEF IInv, RegisterProvider, history, today, money
<1>3. AutoRegister(n, Larger(BaseQuota, capacity))  BY DEF RegisterProvider
<1>4. /\ Sound(r)
      /\ \A m \in Nodes : node'[m].proofAge = node[m].proofAge /\ node'[m].assigned = node[m].assigned
      BY <1>1, <1>2, <1>3, RegisteredOK
<1>5. Money(r) = Money(Now)  BY <1>2, NextIs DEF Money, Now
<1> QED  BY <1>2, <1>4, <1>5, InvKept DEF NoneTaken

(* More stake, counted twice in the quota. *)
LEMMA UpgradeQuotaInv ==
    ASSUME IInv, NEW r, r = Now', NEW n \in Nodes, NEW amt \in StakeAmounts, UpgradeQuota(n, amt)
    PROVE  IInv' /\ NoneTaken
<1> DEFINE g == [node[n] EXCEPT !.quota = @ + amt * GbPerStake]
<1>1. amt \in Nat /\ amt * GbPerStake \in Nat  BY StorageAssumption
<1>2. balance' \in [Nodes -> Nat] /\ stake' \in [Nodes -> Nat] /\ Money(r) = Money(Now)
      BY <1>1, StakedMoney DEF UpgradeQuota
<1>3. UNCHANGED <<order, file, unbonding, fund, rewards>> /\ UNCHANGED <<history, settled>>
      BY DEF UpgradeQuota, history, today
<1>4. node \in [Nodes -> NodeRecords]  BY NowIs DEF IInv
<1>5. g \in NodeRecords /\ g.assigned = node[n].assigned /\ g.proofAge = node[n].proofAge
      <2>1. node[n] \in NodeRecords /\ node[n].quota \in Nat  BY <1>4 DEF NodeRecords
      <2>2. node[n].quota + amt * GbPerStake \in Nat  BY <1>1, <2>1
      <2> QED  BY <2>1, <2>2 DEF NodeRecords
<1>6. node' = [node EXCEPT ![n] = g] /\ n \in ToSet(order)  BY <1>4 DEF UpgradeQuota
<1> HIDE DEF g
<1>7. Sound(r)  BY <1>2, <1>3, <1>5, <1>6, RecordPut
<1>8. \A m \in Nodes : node'[m].proofAge = node[m].proofAge /\ node'[m].assigned = node[m].assigned
      BY <1>4, <1>5, <1>6
<1> QED  BY <1>2, <1>3, <1>7, <1>8, InvKept DEF NoneTaken
(* Files are registered and uploaded again. *)
LEMMA FilesInv ==
    ASSUME IInv, NEW r, r = Now', UNCHANGED <<order, node, money, settled, history>>,
           file' \in [Cids -> FileRecords],
           \A c \in Cids : \/ file'[c] = file[c]
                           \/ file'[c].replicas = {}
                           \/ file'[c].status = "stored" /\ file'[c].prev # None
    PROVE  IInv' /\ NoneTaken
<1>1. /\ Sound(Now) /\ order \in Seq(Nodes) /\ node \in [Nodes -> NodeRecords]
      /\ balance \in [Nodes -> Nat] /\ stake \in [Nodes -> Nat] /\ unbonding \in [Nodes -> Nat]
      /\ fund \in Nat /\ rewards \in [Nodes -> Nat]
      BY NowIs DEF IInv
<1>2. UNCHANGED <<order, node, balance, stake, unbonding, fund, rewards, settled>> /\ UNCHANGED history
      BY DEF money, history
<1>3. r \in States  BY <1>1, <1>2 DEF Now, States
<1>4. Keyed(r)
      <2>1. Distinct(order) /\ \A m \in Nodes : m \notin ToSet(order) => node[m] = Absent
            BY <1>1 DEF Sound, Keyed, Registered, Now
      <2> QED  BY <1>2, <2>1, NextIs DEF Keyed, Registered
<1>5. Held(r)
      <2>1. Held(Now)  BY <1>1 DEF Sound
      <2>2. \A c \in Cids :
              /\ file[c].status = "none" => file[c].replicas = {}
              /\ file[c].prev = None =>
                    \A n \in file[c].replicas : n \in ToSet(order) /\ c \in node[n].assigned
            BY <2>1 DEF Held, Registered, Now
      <2>3. \A c \in Cids :
              /\ file'[c].status = "none" => file'[c].replicas = {}
              /\ file'[c].prev = None =>
                    \A n \in file'[c].replicas : n \in ToSet(order) /\ c \in node[n].assigned
            BY <2>2
      <2> QED  BY <1>2, <2>3, NextIs DEF Held, Registered
<1>6. Money(r) = Money(Now)  BY <1>2, NextIs DEF Money, Now
<1> QED  BY <1>2, <1>3, <1>4, <1>5, <1>6, InvKept DEF Sound, NoneTaken

(* A new file has no replicas. *)
LEMMA FileRegisterInv ==
    ASSUME IInv, NEW r, r = Now', NEW c \in Cids, FileRegister(c)
    PROVE  IInv' /\ NoneTaken
<1> DEFINE f == [NoFile EXCEPT !.status = "stored"]
<1>1. UNCHANGED <<order, node, money, settled, history>> /\ file' = [file EXCEPT ![c] = f]
      BY DEF FileRegister, today
<1>2. f \in FileRecords /\ f.replicas = {}  BY DEF NoFile, FileRecords
<1>3. file \in [Cids -> FileRecords]  BY NowIs DEF IInv
<1> HIDE DEF f
<1> QED  BY <1>1, <1>2, <1>3, FilesInv

(* The replicas move to the new content id, which is excepted from ReplicasAreHeld. *)
LEMMA FileReuploadInv ==
    ASSUME IInv, NEW r, r = Now', NEW old \in Cids, NEW new \in Cids, FileReupload(old, new)
    PROVE  IInv' /\ NoneTaken
<1> DEFINE f == [file[old] EXCEPT !.prev = old, !.notified = "no"]
<1>1. /\ UNCHANGED <<order, node, money, settled, history>>
      /\ file' = [file EXCEPT ![new] = f, ![old] = NoFile]
      /\ file[old].status = "stored" /\ file[new].status = "none"
      BY DEF FileReupload, today
<1>2. file \in [Cids -> FileRecords] /\ file[old] \in FileRecords  BY NowIs DEF IInv
<1>3. f \in FileRecords /\ f.status = "stored" /\ f.prev = old  BY <1>1, <1>2 DEF FileRecords
<1>4. NoFile \in FileRecords /\ NoFile.replicas = {}  BY DEF NoFile, FileRecords
<1>5. old # None  BY StorageAssumption
<1> HIDE DEF f
<1>6. /\ file' \in [Cids -> FileRecords]
      /\ \A c \in Cids : file'[c] = IF c = old THEN NoFile ELSE IF c = new THEN f ELSE file[c]
      BY <1>1, <1>2, <1>3, <1>4
<1>7. ASSUME NEW c \in Cids
      PROVE  \/ file'[c] = file[c] \/ file'[c].replicas = {}
             \/ file'[c].status = "stored" /\ file'[c].prev # None
      BY <1>3, <1>4, <1>5, <1>6
<1> QED  BY <1>1, <1>6, <1>7, FilesInv

(* Nothing that the invariant speaks of changes. *)
LEMMA NothingChanged ==
    ASSUME IInv, NEW r, r = Now', UNCHANGED <<order, node, file, money, settled, history>>
    PROVE  IInv' /\ NoneTaken
<1>1. file' \in [Cids -> FileRecords] /\ \A c \in Cids : file'[c] = file[c]  BY NowIs DEF IInv
<1> QED  BY <1>1, FilesInv

(* Midnight. *)
LEMMA NextDayInv ==
    ASSUME IInv, NEW r, r = Now', NextDay
    PROVE  IInv' /\ NoneTaken
<1> DEFINE g(n) == [node[n] EXCEPT !.proofAge = Older(@), !.failAge = Older(@),
                       !.proofGb = IF node[n].proofAge <= 0 THEN @ ELSE 0,
                       !.wait = Larger(0, @ - 1)]
<1>1. /\ Sound(Now) /\ order \in Seq(Nodes) /\ node \in [Nodes -> NodeRecords]
      /\ file \in [Cids -> FileRecords]
      /\ balance \in [Nodes -> Nat] /\ stake \in [Nodes -> Nat] /\ unbonding \in [Nodes -> Nat]
      /\ fund \in Nat
      BY NowIs DEF IInv
<1>2. /\ UNCHANGED <<order, file, balance, stake, unbonding, fund>>
      /\ proven' = [n \in Nodes |-> {d + 1 : d \in proven[n] \ {1}}]
      /\ rewards' = [n \in Nodes |-> 0]
      BY DEF NextDay, money
<1>3. node' = [n \in Nodes |-> g(n)]  BY DEF NextDay
<1>4. ASSUME NEW n \in Nodes
      PROVE  /\ g(n) \in NodeRecords /\ g(n).assigned = node[n].assigned
             /\ g(n).proofAge = Older(node[n].proofAge)
             /\ node[n] = Absent => g(n) = Absent
      <2>1. node[n] \in NodeRecords  BY <1>1
      <2>2. \A a \in -1..2 : Older(a) \in -1..2  BY DEF Older, Smaller
      <2>3. \A w \in 0..ExitDays : Larger(0, w - 1) \in 0..ExitDays  BY StorageAssumption DEF Larger
      <2> DEFINE p == Older(node[n].proofAge)
                 q == Older(node[n].failAge)
                 b == IF node[n].proofAge <= 0 THEN node[n].proofGb ELSE 0
                 w == Larger(0, node[n].wait - 1)
      <2>4. p \in -1..2 /\ q \in -1..2 /\ b \in Nat /\ w \in 0..ExitDays
            BY <2>1, <2>2, <2>3 DEF NodeRecords
      <2>5. g(n) = [node[n] EXCEPT !.proofAge = p, !.failAge = q, !.proofGb = b, !.wait = w]
            BY <2>1 DEF NodeRecords
      <2>6. node[n] = Absent => p = 2 /\ q = 2 /\ b = 0 /\ w = 0
            BY DEF Absent, Older, Smaller, Larger
      <2>7. g(n).proofAge = p  BY <2>1 DEF NodeRecords
      <2> HIDE DEF p, q, b, w, g
      <2>8. g(n) \in NodeRecords /\ g(n).assigned = node[n].assigned
            <3> DEFINE e == [node[n] EXCEPT !.proofAge = p]
                       f == [e EXCEPT !.failAge = q]
                       h == [f EXCEPT !.proofGb = b]
            <3>1. e \in NodeRecords /\ e.assigned = node[n].assigned  BY <2>1, <2>4 DEF NodeRecords
            <3>2. g(n) = [h EXCEPT !.wait = w]  BY <2>5
            <3> HIDE DEF e
            <3>3. f \in NodeRecords /\ f.assigned = e.assigned  BY <2>4, <3>1 DEF NodeRecords
            <3> HIDE DEF f
            <3>4. h \in NodeRecords /\ h.assigned = f.assigned  BY <2>4, <3>3 DEF NodeRecords
            <3> HIDE DEF h
            <3>5. g(n) \in NodeRecords /\ g(n).assigned = h.assigned  BY <2>4, <3>2, <3>4 DEF NodeRecords
            <3> QED  BY <3>1, <3>3, <3>4, <3>5
      <2>9. ASSUME node[n] = Absent PROVE g(n) = Absent
            <3>1. g(n) = [Absent EXCEPT !.proofAge = 2, !.failAge = 2, !.proofGb = 0, !.wait = 0]
                  BY <2>5, <2>6, <2>9
            <3>2. [Absent EXCEPT !.proofAge = 2, !.failAge = 2, !.proofGb = 0, !.wait = 0] = Absent
                  <4>1. [Absent EXCEPT !.proofAge = 2] = Absent  BY DEF Absent
                  <4>2. [Absent EXCEPT !.failAge = 2] = Absent  BY DEF Absent
                  <4>3. [Absent EXCEPT !.proofGb = 0] = Absent  BY DEF Absent
                  <4>4. [Absent EXCEPT !.wait = 0] = Absent  BY DEF Absent
                  <4> QED  BY <4>1, <4>2, <4>3, <4>4
            <3> QED  BY <3>1, <3>2
      <2> QED  BY <2>7, <2>8, <2>9 DEF p
<1> HIDE DEF g
<1>5. /\ node' \in [Nodes -> NodeRecords]
      /\ \A n \in Nodes : /\ node'[n].assigned = node[n].assigned
                          /\ node'[n].proofAge = Older(node[n].proofAge)
                          /\ node[n] = Absent => node'[n] = Absent
      BY <1>3, <1>4
<1>6. r \in States  BY <1>1, <1>2, <1>5 DEF Now, States
<1>7. Keyed(r)
      <2>1. Distinct(order) /\ \A m \in Nodes : m \notin ToSet(order) => node[m] = Absent
            BY <1>1 DEF Sound, Keyed, Registered, Now
      <2> QED  BY <1>2, <1>5, <2>1, NextIs DEF Keyed, Registered
<1>8. Held(r)
      <2>1. Held(Now) /\ \A c \in Cids : file[c].replicas \subseteq Nodes  BY <1>1 DEF Sound, FileRecords
      <2>2. \A c \in Cids :
              /\ file[c].status = "none" => file[c].replicas = {}
              /\ file[c].prev = None =>
                    \A n \in file[c].replicas : n \in ToSet(order) /\ c \in node'[n].assigned
            BY <1>5, <2>1 DEF Held, Registered, Now
      <2> QED  BY <1>2, <2>2, NextIs DEF Held, Registered
<1>9. Money(r) = Money(Now)  BY <1>2, NextIs DEF Money, Now
<1>10. proven \in [Nodes -> SUBSET Int]  BY DEF IInv
<1>11. proven' \in [Nodes -> SUBSET Int]
       <2>1. \A n \in Nodes : {d + 1 : d \in proven[n] \ {1}} \in SUBSET Int  BY <1>10
       <2> QED  BY <1>2, <2>1
<1>12. ASSUME NEW n \in Nodes, node'[n].proofAge # 2 PROVE node'[n].proofAge \in proven'[n]
       <2>1. node[n].proofAge \in -1..2  BY <1>1 DEF NodeRecords
       <2>2. node[n].proofAge \in {-1, 0} /\ node'[n].proofAge = node[n].proofAge + 1
             BY <1>5, <1>12, <2>1 DEF Older, Smaller
       <2>3. node[n].proofAge \in proven[n] \ {1}  BY <2>2 DEF IInv
       <2>4. node[n].proofAge + 1 \in proven'[n]  BY <1>2, <2>3
       <2> QED  BY <2>2, <2>4
<1>13. \A n \in Nodes : rewards'[n] = 0  BY <1>2
<1> QED  BY <1>5, <1>6, <1>7, <1>8, <1>9, <1>11, <1>12, <1>13, InvAfter DEF Sound, NoneTaken
-----------------------------------------------------------------------------
(* The theorems. *)

(* Every step keeps the invariant, and gives no leaver a file. *)
LEMMA NextInv ==
    ASSUME IInv, [Next]_vars
    PROVE  IInv' /\ (Next => NoneTaken)
<1>1. PICK r : r = Now'  OBVIOUS
<1>2. ASSUME NEW n \in Nodes, NEW amt \in StakeAmounts, Stake(n, amt) \/ UpgradeQuota(n, amt)
      PROVE  IInv' /\ NoneTaken
      BY <1>1, <1>2, StakeInv, UpgradeQuotaInv
<1>3. ASSUME NEW n \in Nodes, NEW g \in Capacities, RegisterProvider(n, g)
      PROVE  IInv' /\ NoneTaken
      BY <1>1, <1>3, RegisterProviderInv
<1>4. ASSUME NEW n \in Nodes, NEW c \in Cids, Claim(n, c) PROVE IInv' /\ NoneTaken
      BY <1>4, ClaimInv
<1>5. ASSUME NEW n \in Nodes, NEW d \in -1..1, NEW match \in BOOLEAN, Prove(n, d, match)
      PROVE  IInv' /\ NoneTaken
      BY <1>1, <1>5, ProveInv
<1>6. ASSUME NEW n \in Nodes, Heartbeat(n) \/ ExitNotice(n) \/ FallSilent(n)
      PROVE  IInv' /\ NoneTaken
      BY <1>1, <1>6, HeartbeatInv, ExitNoticeInv, FallSilentInv
<1>7. ASSUME NodeStep PROVE IInv' /\ NoneTaken
      BY <1>2, <1>3, <1>4, <1>5, <1>6, <1>7 DEF NodeStep
<1>8. ASSUME UpkeepStep PROVE IInv' /\ NoneTaken  BY <1>8, UpkeepInv DEF UpkeepStep
<1>9. ASSUME NEW c \in Cids, FileRegister(c) \/ RecordAccess(c) PROVE IInv' /\ NoneTaken
      <2>1. CASE FileRegister(c)  BY <1>1, <2>1, FileRegisterInv
      <2>2. CASE RecordAccess(c)
            <3>1. UNCHANGED <<order, node, file, money, settled, history>>
                  BY <2>2 DEF RecordAccess, today
            <3> QED  BY <1>1, <3>1, NothingChanged
      <2> QED  BY <1>9, <2>1, <2>2
<1>10. ASSUME NEW c \in Cids, NEW new \in Cids, FileReupload(c, new) PROVE IInv' /\ NoneTaken
       BY <1>1, <1>10, FileReuploadInv
<1>11. ASSUME FileStep PROVE IInv' /\ NoneTaken
       <2>1. Uploads \subseteq Cids  BY StorageAssumption
       <2> QED  BY <1>9, <1>10, <1>11, <2>1 DEF FileStep
<1>12. ASSUME Next PROVE IInv' /\ NoneTaken
       BY <1>1, <1>7, <1>8, <1>11, <1>12, MaintenanceInv, MonitorInv, NextDayInv DEF Next
<1>13. ASSUME UNCHANGED vars PROVE IInv'
       <2>1. UNCHANGED <<order, node, file, money, settled, history>>  BY <1>13 DEF vars, today
       <2> QED  BY <1>1, <2>1, NothingChanged
<1> QED  BY <1>12, <1>13

(* The invariant holds of every state that the storage incentive can reach. *)
THEOREM Invariance == Spec => []IInv
<1>1. Init => IInv  BY InitInv
<1>2. IInv /\ [Next]_vars => IInv'  BY NextInv
<1> QED  BY <1>1, <1>2, PTL DEF Spec

(* Every key of inc_nodes has one record, and whoever is listed for a file is a
   registered node with the file among its assigned ones. *)
THEOREM RecordsAreSoundHolds == Spec => []RecordsAreSound
<1>1. IInv => RecordsAreSound
      <2> SUFFICES ASSUME IInv PROVE RecordsAreSound  OBVIOUS
      <2>1. /\ order \in Seq(Nodes) /\ node \in [Nodes -> NodeRecords] /\ file \in [Cids -> FileRecords]
            /\ balance \in [Nodes -> Nat] /\ stake \in [Nodes -> Nat] /\ unbonding \in [Nodes -> Nat]
            /\ fund \in Nat
            BY NowIs DEF IInv
      <2>2. /\ Distinct(order) /\ \A n \in Nodes : n \notin ToSet(order) => node[n] = Absent
            /\ ReplicasAreHeld
            BY DEF IInv, Sound, Keyed, Held, Registered, Now, ReplicasAreHeld
      <2>3. Cardinality(ToSet(order)) = Len(order)  BY <2>1, <2>2, DistinctCount
      <2> QED  BY <2>1, <2>2, <2>3 DEF RecordsAreSound, TypeOK, NodeRecords, FileRecords
<1> QED  BY <1>1, Invariance, PTL

(* Rewards, fees, slashes and released stakes create no NOVA, and a reward for a day is
   paid once and only for a proof of that day. *)
THEOREM MoneyIsEarnedHolds == Spec => []MoneyIsEarned
<1>1. IInv => MoneyIsEarned  BY DEF IInv, MoneyIsEarned, RewardIsEarned
<1> QED  BY <1>1, Invariance, PTL

(* A node that has given notice is assigned no more files, by itself, by a takeover or
   by a hot file. *)
THEOREM LeaversTakeNothingHolds == Spec => LeaversTakeNothing
<1> DEFINE P == \A n \in Nodes : node[n].leaving = "yes" => node'[n].assigned \subseteq node[n].assigned
<1>1. IInv /\ [Next]_vars => [P]_vars  BY NextInv DEF NoneTaken
<1> QED  BY <1>1, Invariance, PTL DEF Spec, LeaversTakeNothing

(* After a round of the monitor the owner of every stored file that has no node online has
   been told. *)
THEOREM RedIsToldHolds == Spec => RedIsTold
<1> DEFINE P == Monitor => \A c \in Cids :
                  file'[c].status = "stored" /\ IsRed(Now, c)' => file'[c].notified = "yes"
<1>1. ASSUME IInv, Monitor, NEW c \in Cids, file'[c].status = "stored", IsRed(Now, c)'
      PROVE  file'[c].notified = "yes"
      <2> DEFINE s == ScanOffline(Now)
                 r == ReassignEndangered(s)
      <2>1. Sound(s) /\ \A n \in Nodes : s.node[n].leaving = "yes" => s.node[n].online = "no"
            BY <1>1, ScanOK DEF IInv
      <2>2. Become(r)  BY <1>1 DEF Monitor
      <2> HIDE DEF s
      <2>3. /\ Sound(r) /\ Since(s, r) /\ Grows(s, r)
            /\ \A x \in Endangered(s) : Told(r, x)
            BY <2>1, ReassignOK
      <2> HIDE DEF r
      <2>4. order' = r.order /\ node' = r.node /\ file' = r.file  BY <2>2 DEF Become
      <2>5. IsRed(r, c)  BY <1>1, <2>4 DEF IsRed, Up, Registered, Now
      <2>6. s.file[c].replicas \subseteq Nodes  BY <2>1 DEF Sound, States, FileRecords
      <2>7. \A n \in s.file[c].replicas : ~Up(s, n)
            BY <2>1, <2>3, <2>5, <2>6 DEF IsRed, Up, Registered, Grows
      <2>8. c \in Stored(s)  BY <1>1, <2>3, <2>4 DEF Stored, Since, Keeps
      <2>9. c \in Endangered(s)
            <3>1. {n \in s.file[c].replicas : Up(s, n)} = {}  BY <2>7
            <3>2. Cardinality({n \in s.file[c].replicas : Up(s, n)}) < MinHealthy
                  BY <3>1, FS_EmptySet, StorageAssumption
            <3> QED  BY <2>8, <3>2 DEF Endangered
      <2> QED  BY <2>3, <2>4, <2>5, <2>9 DEF Told
<1>2. IInv /\ [Next]_vars => [P]_vars  BY <1>1
<1> QED  BY <1>2, Invariance, PTL DEF Spec, RedIsTold
=============================================================================
