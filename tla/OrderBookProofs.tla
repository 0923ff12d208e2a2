---------------------------- MODULE OrderBookProofs ----------------------------
(***************************************************************************)
(* Lemmas about the operations of OrderBook, for any set of prices: what   *)
(* each leaves of the types, of the levels, of the order of a queue and of *)
(* the orders themselves, and that a snapshot rebuilds the book it was     *)
(* taken of.  The proofs about Matching, Exchange and MarketData rest on   *)
(* them.                                                                   *)
(***************************************************************************)
EXTENDS OrderBook, TLAPS, WellFoundedInduction, FiniteSetTheorems

-----------------------------------------------------------------------------
(* Induction and recursion *)

(* A non-empty set of naturals has its least element for Min. *)
LEMMA MinIsMember ==
  ASSUME NEW S \in SUBSET Nat, S # {}
  PROVE  Min(S) \in S /\ \A x \in S : Min(S) <= x
<1> DEFINE Less == OpToRel(<, Nat)
<1>1. \A x, y \in Nat : <<y, x>> \in Less <=> y < x
  BY DEF OpToRel
<1>2. IsWellFoundedOn(Less, Nat)
  BY NatLessThanWellFounded
<1> HIDE DEF Less
<1>3. PICK x \in S : \A y \in S : ~ (<<y, x>> \in Less)
  BY <1>2, WFMin
<1>4. ASSUME NEW y \in S PROVE x <= y
  <2>1. ~ (<<y, x>> \in Less)
    BY <1>3
  <2>2. ~ (y < x)
    <3>1. x \in Nat /\ y \in Nat
      OBVIOUS
    <3>2. QED
      BY <1>1, <2>1, <3>1, Zenon
  <2>3. QED
    BY <2>2
<1>5. QED
  BY <1>4 DEF Min

(* The greatest of some places of a sequence, and the last of the first k. *)
LEMMA MaxIsMember ==
  ASSUME NEW n \in Nat, NEW S \in SUBSET (1 .. n), S # {}
  PROVE  Max(S) \in S
<1>1. PICK x \in 1 .. n : x \in S
  OBVIOUS
<1> DEFINE down == {n - y : y \in S}
<1>2. down \in SUBSET Nat /\ down # {}
  BY <1>1
<1>3. Min(down) \in down /\ \A y \in down : Min(down) <= y
  BY <1>2, MinIsMember
<1>4. PICK z \in S : \A y \in S : n - z <= n - y
  BY <1>3
<1>5. z \in S /\ \A y \in S : z >= y
  BY <1>4
<1>6. QED
  BY <1>5 DEF Max

LEMMA MaxOfFirst ==
  ASSUME NEW k \in Nat \ {0}
  PROVE  Max(1 .. k) = k
<1> DEFINE S == 1 .. k
<1>1. k \in S /\ \A y \in S : k >= y
  OBVIOUS
<1>2. \A x \in S : (\A y \in S : x >= y) => x = k
  BY <1>1
<1> HIDE DEF S
<1>3. Max(S) = k
  BY <1>1, <1>2 DEF Max
<1>4. QED
  BY <1>3 DEF S

(* Induction up to n: by the least number that is not in the set. *)
LEMMA Induct ==
  ASSUME NEW n \in Nat, NEW S, 0 \in S, \A k \in 1 .. n : k - 1 \in S => k \in S
  PROVE  \A k \in 0 .. n : k \in S
<1> DEFINE out == {k \in 0 .. n : k \notin S}
<1>1. SUFFICES ASSUME out # {} PROVE FALSE
  OBVIOUS
<1>2. out \in SUBSET Nat
  OBVIOUS
<1>3. Min(out) \in out /\ \A x \in out : Min(out) <= x
  BY <1>1, <1>2, MinIsMember
<1>4. PICK least \in 0 .. n : least \notin S /\ \A x \in out : least <= x
  BY <1>3
<1>5. least \in 1 .. n /\ least - 1 \in 0 .. n
  BY <1>4
<1>6. least - 1 \notin out
  BY <1>4, <1>5
<1>7. QED
  BY <1>4, <1>5, <1>6

\* F takes members of V on, by members of E.
IsStep(F, V, E) == F \in [V \X E -> V]

\* What F makes of base along the first n elements of s.
IsRecursion(t, n, F, V, base, s) ==
  /\ t \in [0 .. n -> V]
  /\ t[0] = base /\ \A k \in 1 .. n : t[k] = F[<<t[k - 1], s[k]>>]

(* A function defined by recursion along a sequence. *)
LEMMA RecursionExists ==
  ASSUME NEW V, NEW E, NEW F, IsStep(F, V, E), NEW base \in V, NEW s \in Seq(E)
  PROVE  \E t : IsRecursion(t, Len(s), F, V, base, s)
<1> DEFINE Defines(t, n) == IsRecursion(t, n, F, V, base, s)
           upTo == {n \in 0 .. Len(s) : \E t : Defines(t, n)}
<1> USE DEF IsStep, IsRecursion
<1>0. Len(s) \in Nat /\ \A k \in 1 .. Len(s) : s[k] \in E
  OBVIOUS
<1>1. 0 \in upTo
  <2> DEFINE t == [k \in {0} |-> base]
  <2>1. Defines(t, 0)
    OBVIOUS
  <2> HIDE DEF t, Defines
  <2>2. 0 \in 0 .. Len(s)
    BY <1>0
  <2>3. QED
    BY <2>1, <2>2
<1>2. ASSUME NEW n \in 1 .. Len(s), n - 1 \in upTo PROVE n \in upTo
  <2>1. PICK t : Defines(t, n - 1)
    BY <1>2
  <2> DEFINE last == F[<<t[n - 1], s[n]>>]
             u == [k \in 0 .. n |-> IF k = n THEN last ELSE t[k]]
  <2>2. n \in Nat /\ n - 1 \in 0 .. n - 1 /\ s[n] \in E
    BY <1>0
  <2>3. last \in V
    BY <2>1, <2>2
  <2> HIDE DEF last
  <2>4. u \in [0 .. n -> V]
    BY <2>1, <2>2, <2>3
  <2>5. u[0] = base
    BY <2>1, <2>2
  <2>6. ASSUME NEW k \in 1 .. n PROVE u[k] = F[<<u[k - 1], s[k]>>]
    <3>1. k - 1 \in 0 .. n - 1 /\ u[k - 1] = t[k - 1]
      BY <2>2
    <3>2. CASE k = n
      <4>1. u[k] = last
        BY <2>2, <3>2
      <4>2. QED
        BY <3>1, <3>2, <4>1 DEF last
    <3>3. CASE k # n
      <4>1. k \in 1 .. n - 1 /\ u[k] = t[k]
        BY <2>2, <3>3
      <4>2. QED
        BY <2>1, <3>1, <4>1
    <3>4. QED
      BY <3>2, <3>3
  <2> HIDE DEF u
  <2>7. Defines(u, n)
    BY <2>4, <2>5, <2>6
  <2>8. n \in 0 .. Len(s)
    BY <1>0
  <2> HIDE DEF Defines
  <2>9. QED
    BY <2>7, <2>8
<1> HIDE DEF upTo
<1>3. \A n \in 0 .. Len(s) : n \in upTo
  <2> DEFINE len == Len(s)
  <2>1. len \in Nat /\ \A n \in 1 .. len : n - 1 \in upTo => n \in upTo
    BY <1>0, <1>2
  <2> HIDE DEF len
  <2>2. \A n \in 0 .. len : n \in upTo
    BY <1>1, <2>1, Induct
  <2>3. QED
    BY <2>2 DEF len
<1>4. Len(s) \in upTo
  BY <1>0, <1>3
<1>5. QED
  BY <1>4 DEF upTo

\* ... and along the elements at any of these places, as FoldLeft has it.
IsFold(f, n, F, V, base, s) ==
  /\ f \in [SUBSET (1 .. n) -> V]
  /\ f[{}] = base
  /\ \A S \in SUBSET (1 .. n) : S # {} => f[S] = F[<<f[S \ {Max(S)}], s[Max(S)]>>]

LEMMA FoldExists ==
  ASSUME NEW V, NEW E, NEW F, IsStep(F, V, E), NEW base \in V, NEW s \in Seq(E)
  PROVE  \E f : IsFold(f, Len(s), F, V, base, s)
<1> DEFINE Folds(f, n) == IsFold(f, n, F, V, base, s)
           upTo == {n \in 0 .. Len(s) : \E f : Folds(f, n)}
<1> USE DEF IsStep, IsFold
<1>0. Len(s) \in Nat /\ \A k \in 1 .. Len(s) : s[k] \in E
  OBVIOUS
<1>1. 0 \in upTo
  <2>0. SUBSET (1 .. 0) = {{}}
    OBVIOUS
  <2> DEFINE f == [S \in {{}} |-> base]
  <2>1. Folds(f, 0)
    BY <2>0
  <2> HIDE DEF f, Folds
  <2>2. 0 \in 0 .. Len(s)
    BY <1>0
  <2>3. QED
    BY <2>1, <2>2
<1>2. ASSUME NEW n \in 1 .. Len(s), n - 1 \in upTo PROVE n \in upTo
  <2>1. PICK f : Folds(f, n - 1)
    BY <1>2
  <2> DEFINE g == [S \in SUBSET (1 .. n) |->
                     IF n \in S THEN F[<<f[S \ {n}], s[n]>>] ELSE f[S]]
  <2>2. n \in Nat \ {0} /\ s[n] \in E
    BY <1>0
  <2>3. \A S \in SUBSET (1 .. n) : S \ {n} \in SUBSET (1 .. n - 1)
                                   /\ (n \notin S => S \in SUBSET (1 .. n - 1))
    BY <2>2
  <2>4. g \in [SUBSET (1 .. n) -> V]
    <3> SUFFICES ASSUME NEW S \in SUBSET (1 .. n)
                 PROVE  (IF n \in S THEN F[<<f[S \ {n}], s[n]>>] ELSE f[S]) \in V
      OBVIOUS
    <3>1. f[S \ {n}] \in V /\ (n \notin S => f[S] \in V)
      BY <2>1, <2>3
    <3>2. QED
      BY <2>2, <3>1
  <2>5. g[{}] = base
    BY <2>1
  <2>6. ASSUME NEW S \in SUBSET (1 .. n), S # {}
        PROVE  g[S] = F[<<g[S \ {Max(S)}], s[Max(S)]>>]
    <3>1. CASE n \in S
      <4>1. Max(S) = n
        <5>1. \A y \in S : n >= y
          BY <2>2
        <5>2. \A x \in S : (\A y \in S : x >= y) => x = n
          BY <2>2, <3>1
        <5>3. QED
          BY <3>1, <5>1, <5>2 DEF Max
      <4>2. g[S \ {n}] = f[S \ {n}]
        <5>1. S \ {n} \in SUBSET (1 .. n) /\ n \notin S \ {n}
          OBVIOUS
        <5>2. QED
          BY <5>1
      <4>3. g[S] = F[<<f[S \ {n}], s[n]>>]
        BY <3>1
      <4>4. QED
        BY <4>1, <4>2, <4>3
    <3>2. CASE n \notin S
      <4> DEFINE m == Max(S)
      <4>1. S \in SUBSET (1 .. n - 1) /\ S \ {m} \in SUBSET (1 .. n)
        BY <2>3, <3>2
      <4>2. g[S] = f[S] /\ g[S \ {m}] = f[S \ {m}]
        BY <3>2, <4>1
      <4>3. f[S] = F[<<f[S \ {m}], s[m]>>]
        BY <2>1, <2>6, <4>1
      <4>4. QED
        BY <4>2, <4>3
    <3>3. QED
      BY <3>1, <3>2
  <2> HIDE DEF g
  <2>7. Folds(g, n)
    BY <2>4, <2>5, <2>6
  <2>8. n \in 0 .. Len(s)
    BY <1>0
  <2> HIDE DEF Folds
  <2>9. QED
    BY <2>7, <2>8
<1> HIDE DEF upTo
<1>3. \A n \in 0 .. Len(s) : n \in upTo
  <2> DEFINE len == Len(s)
  <2>1. len \in Nat /\ \A n \in 1 .. len : n - 1 \in upTo => n \in upTo
    BY <1>0, <1>2
  <2> HIDE DEF len
  <2>2. \A n \in 0 .. len : n \in upTo
    BY <1>1, <2>1, Induct
  <2>3. QED
    BY <2>2 DEF len
<1>4. Len(s) \in upTo
  BY <1>0, <1>3
<1>5. QED
  BY <1>4 DEF upTo

(* Two sequences joined, one by one. *)
LEMMA Joined ==
  ASSUME NEW S, NEW r \in Seq(S), NEW n \in Seq(S)
  PROVE  /\ r \o n \in Seq(S) /\ Len(r \o n) = Len(r) + Len(n)
         /\ \A k \in 1 .. Len(r) : (r \o n)[k] = r[k]
         /\ \A k \in 1 .. Len(n) : (r \o n)[Len(r) + k] = n[k]
OBVIOUS

(* What FlattenSeq builds up, one sequence after another. *)
LEMMA FlattenFacts ==
  ASSUME NEW E, NEW seqs \in Seq(Seq(E))
  PROVE  \E t \in [0 .. Len(seqs) -> Seq(E)] :
           /\ t[0] = <<>> /\ \A k \in 1 .. Len(seqs) : t[k] = t[k - 1] \o seqs[k]
           /\ FlattenSeq(seqs) = t[Len(seqs)]
<1> DEFINE V == Seq(E)
           F == [x \in V \X V |-> x[1] \o x[2]]
           empty == <<>>
           n == Len(seqs)
<1>1. n \in Nat /\ empty \in V /\ seqs \in Seq(V)
  OBVIOUS
<1>2. IsStep(F, V, V) /\ \A u, v \in V : F[<<u, v>>] = u \o v
  <2>1. \A u, v \in V : u \o v \in V
    OBVIOUS
  <2> HIDE DEF V
  <2>2. QED
    BY <2>1 DEF IsStep
<1>3. \A v \in V : empty \o v = v
  OBVIOUS
<1> HIDE DEF F, V, empty
<1> HIDE DEF n
<1>0. PICK t \in [0 .. n -> V] : t[0] = empty /\ \A k \in 1 .. n : t[k] = F[<<t[k - 1], seqs[k]>>]
  <2>1. \E t : IsRecursion(t, Len(seqs), F, V, empty, seqs)
    BY <1>1, <1>2, RecursionExists
  <2>2. QED
    BY <2>1 DEF n, IsRecursion
<1>4. \A k \in 1 .. n : t[k] = t[k - 1] \o seqs[k]
  <2> SUFFICES ASSUME NEW k \in 1 .. n PROVE t[k] = t[k - 1] \o seqs[k]
    OBVIOUS
  <2>1. k - 1 \in 0 .. n /\ seqs[k] \in V
    BY <1>1 DEF n
  <2>2. QED
    BY <1>0, <1>2, <2>1
<1>5. FlattenSeq(seqs) = t[n]
  <2>1. CASE n = 0
    <3>1. seqs = <<>> /\ t[n] = empty
      BY <1>0, <1>1, <2>1 DEF n
    <3>2. QED
      BY <2>1, <3>1 DEF FlattenSeq, empty, n
  <2>2. CASE n # 0
    <3> DEFINE f == [i \in 1 .. n |-> t[i]]
               c == CHOOSE g : g = [i \in 1 .. n |-> IF i = 1 THEN seqs[i] ELSE g[i - 1] \o seqs[i]]
    <3>1. t[1] = seqs[1]
      <4>1. 1 \in 1 .. n /\ 0 \in 0 .. n
        BY <1>1, <2>2
      <4>2. t[1] = empty \o seqs[1]
        <5>1. t[1] = t[1 - 1] \o seqs[1]
          BY <1>4, <4>1
        <5>2. 1 - 1 = 0
          OBVIOUS
        <5>3. QED
          BY <1>0, <5>1, <5>2
      <4>3. seqs[1] \in V
        BY <1>1, <4>1 DEF n
      <4>4. QED
        BY <1>3, <4>2, <4>3
    <3>2. f = [i \in 1 .. n |-> IF i = 1 THEN seqs[i] ELSE f[i - 1] \o seqs[i]]
      <4> SUFFICES ASSUME NEW i \in 1 .. n
                   PROVE  f[i] = IF i = 1 THEN seqs[i] ELSE f[i - 1] \o seqs[i]
        OBVIOUS
      <4>1. CASE i = 1
        BY <3>1, <4>1
      <4>2. CASE i # 1
        <5>1. i - 1 \in 1 .. n
          BY <1>1, <4>2
        <5>2. QED
          BY <1>4, <4>2, <5>1
      <4>3. QED
        BY <4>1, <4>2
    <3> HIDE DEF f
    <3>3. c = [i \in 1 .. n |-> IF i = 1 THEN seqs[i] ELSE c[i - 1] \o seqs[i]]
      BY <3>2
    <3>4. FlattenSeq(seqs) = c[n]
      BY <2>2 DEF FlattenSeq, n
    <3> HIDE DEF c
    <3> DEFINE agree == {k \in 0 .. n : k = 0 \/ c[k] = t[k]}
    <3>5. 0 \in agree
      BY <1>1
    <3>6. ASSUME NEW k \in 1 .. n, k - 1 \in agree PROVE k \in agree
      <4>1. CASE k = 1
        BY <3>1, <3>3, <4>1
      <4>2. CASE k # 1
        <5>1. c[k] = c[k - 1] \o seqs[k]
          BY <3>3, <4>2
        <5>2. c[k - 1] = t[k - 1]
          BY <1>1, <3>6, <4>2
        <5>3. k \in 0 .. n
          BY <1>1
        <5>4. QED
          BY <1>4, <5>1, <5>2, <5>3
      <4>3. QED
        BY <4>1, <4>2
    <3> HIDE DEF agree
    <3>7. \A k \in 0 .. n : k \in agree
      BY <1>1, <3>5, <3>6, Induct
    <3>8. n \in agree
      BY <1>1, <3>7
    <3>9. QED
      BY <2>2, <3>4, <3>8 DEF agree
  <2>3. QED
    BY <2>1, <2>2
<1>6. QED
  BY <1>0, <1>4, <1>5 DEF V, empty, n

-----------------------------------------------------------------------------
(* Numbers in ascending order *)

IsAscending(q) == \A i, j \in DOMAIN q : i < j => q[i] < q[j]

(* A new number has its place in an ascending sequence. *)
LEMMA Inserted ==
  ASSUME NEW n \in Nat \ {0}, NEW T \in SUBSET Int, NEW g \in [1 .. n - 1 -> T], IsAscending(g),
         NEW x \in Int, x \notin T
  PROVE  \E h \in [1 .. n -> T \cup {x}] : IsAscending(h)
<1> DEFINE above == {k \in 1 .. n - 1 : g[k] > x}
           place == IF above = {} THEN n ELSE Min(above)
           h == [k \in 1 .. n |-> IF k < place THEN g[k]
                                  ELSE IF k = place THEN x ELSE g[k - 1]]
<1>1. above \in SUBSET Nat
  OBVIOUS
<1>2. above # {} => Min(above) \in above /\ \A k \in above : Min(above) <= k
  BY <1>1, MinIsMember
<1>3. place \in 1 .. n /\ (place # n => place \in above) /\ (\A k \in above : place <= k)
  <2>1. CASE above = {}
    BY <2>1
  <2>2. CASE above # {}
    <3> DEFINE m == Min(above)
    <3>1. m \in above /\ \A k \in above : m <= k
      BY <1>2, <2>2
    <3> HIDE DEF m
    <3>2. place = m
      BY <2>2 DEF m
    <3>3. m \in 1 .. n
      BY <3>1
    <3>4. QED
      BY <3>1, <3>2, <3>3
  <2>3. QED
    BY <2>1, <2>2
<1>4. \A k \in 1 .. n - 1 : g[k] \in Int /\ g[k] # x /\ (k \in above <=> g[k] > x)
  OBVIOUS
<1> HIDE DEF above, place
<1>5. ASSUME NEW k \in 1 .. n - 1, k < place PROVE g[k] < x
  <2>1. k \notin above
    BY <1>3, <1>5
  <2>2. QED
    BY <1>4, <2>1
<1>6. ASSUME NEW k \in 1 .. n - 1, place <= k PROVE x < g[k]
  <2>1. place \in above /\ place \in 1 .. n - 1
    BY <1>3, <1>6
  <2>2. x < g[place]
    BY <1>4, <2>1
  <2>3. CASE k = place
    BY <2>2, <2>3
  <2>4. CASE place < k
    <3>1. g[place] < g[k]
      BY <2>1, <2>4 DEF IsAscending
    <3>2. QED
      BY <1>4, <2>1, <2>2, <3>1
  <2>5. QED
    BY <1>3, <1>6, <2>3, <2>4
<1>7. \A k \in 1 .. n : /\ k < place => h[k] = g[k] /\ k \in 1 .. n - 1
                        /\ k = place => h[k] = x
                        /\ place < k => h[k] = g[k - 1] /\ k - 1 \in 1 .. n - 1 /\ place <= k - 1
  BY <1>3
<1>8. h \in [1 .. n -> T \cup {x}]
  <2> SUFFICES ASSUME NEW k \in 1 .. n PROVE h[k] \in T \cup {x}
    OBVIOUS
  <2>1. CASE k < place
    BY <1>7, <2>1
  <2>2. CASE k = place
    BY <1>7, <2>2
  <2>3. CASE place < k
    BY <1>7, <2>3
  <2>4. QED
    BY <1>3, <2>1, <2>2, <2>3
<1>9. ASSUME NEW i \in 1 .. n, NEW j \in 1 .. n, i < j PROVE h[i] < h[j]
  <2> HIDE DEF h
  <2>1. CASE j < place
    <3>1. i \in 1 .. n - 1 /\ j \in 1 .. n - 1 /\ h[i] = g[i] /\ h[j] = g[j]
      BY <1>3, <1>7, <1>9, <2>1
    <3>2. QED
      BY <1>9, <3>1 DEF IsAscending
  <2>2. CASE j = place
    BY <1>3, <1>5, <1>7, <1>9, <2>2
  <2>3. CASE place < j
    <3>1. h[j] = g[j - 1] /\ j - 1 \in 1 .. n - 1 /\ x < g[j - 1]
      BY <1>6, <1>7, <2>3
    <3>2. CASE i < place
      <4>1. h[i] = g[i] /\ i \in 1 .. n - 1 /\ g[i] < x
        BY <1>5, <1>7, <3>2
      <4>2. QED
        BY <1>4, <3>1, <4>1
    <3>3. CASE i = place
      BY <1>7, <3>1, <3>3
    <3>4. CASE place < i
      <4>1. h[i] = g[i - 1] /\ i - 1 \in 1 .. n - 1 /\ i - 1 < j - 1
        BY <1>7, <1>9, <3>4
      <4>2. QED
        BY <3>1, <4>1 DEF IsAscending
    <3>5. QED
      BY <1>3, <3>2, <3>3, <3>4
  <2>4. QED
    BY <1>3, <2>1, <2>2, <2>3
<1>10. DOMAIN h = 1 .. n
  OBVIOUS
<1> HIDE DEF h
<1>11. IsAscending(h)
  BY <1>9, <1>10 DEF IsAscending
<1>12. QED
  BY <1>8, <1>11

LEMMA AscendingExists ==
  ASSUME NEW S \in SUBSET Int, IsFiniteSet(S)
  PROVE  \E q \in [1 .. Cardinality(S) -> S] : IsAscending(q)
<1> DEFINE Ordered(n) == \A T \in SUBSET Int :
             IsFiniteSet(T) /\ Cardinality(T) = n => \E q \in [1 .. n -> T] : IsAscending(q)
           upTo == {n \in Nat : Ordered(n)}
           size == Cardinality(S)
<1>1. Ordered(0)
  <2> SUFFICES ASSUME NEW T \in SUBSET Int PROVE \E q \in [1 .. 0 -> T] : IsAscending(q)
    OBVIOUS
  <2> DEFINE q == [k \in 1 .. 0 |-> 0]
  <2>1. q \in [1 .. 0 -> T] /\ DOMAIN q = {}
    OBVIOUS
  <2> HIDE DEF q
  <2>2. IsAscending(q)
    BY <2>1 DEF IsAscending
  <2>3. QED
    BY <2>1, <2>2
<1>2. ASSUME NEW n \in Nat \ {0}, Ordered(n - 1) PROVE Ordered(n)
  <2> SUFFICES ASSUME NEW T \in SUBSET Int, IsFiniteSet(T), Cardinality(T) = n
               PROVE  \E q \in [1 .. n -> T] : IsAscending(q)
    OBVIOUS
  <2>1. PICK x \in T : TRUE
    <3>1. T # {}
      BY FS_EmptySet
    <3>2. QED
      BY <3>1
  <2> DEFINE U == T \ {x}
  <2>2. IsFiniteSet(U) /\ Cardinality(U) = n - 1
    BY <2>1, FS_RemoveElement
  <2>3. U \in SUBSET Int /\ x \in Int /\ x \notin U /\ U \cup {x} = T
    BY <2>1
  <2> HIDE DEF U
  <2>4. PICK g \in [1 .. n - 1 -> U] : IsAscending(g)
    BY <1>2, <2>2, <2>3
  <2>5. \E h \in [1 .. n -> U \cup {x}] : IsAscending(h)
    BY <2>3, <2>4, Inserted
  <2>6. QED
    BY <2>3, <2>5
<1>3. size \in Nat
  BY FS_CardinalityType
<1> HIDE DEF Ordered
<1>4. 0 \in upTo /\ \A k \in 1 .. size : k - 1 \in upTo => k \in upTo
  BY <1>1, <1>2, <1>3
<1> HIDE DEF upTo, size
<1>5. size \in upTo
  <2>1. \A k \in 0 .. size : k \in upTo
    BY <1>3, <1>4, Induct
  <2>2. QED
    BY <1>3, <2>1
<1>6. Ordered(size)
  BY <1>5 DEF upTo
<1>7. QED
  BY <1>6 DEF Ordered, size

(* Each member of a finite set is in its ascending sequence, once. *)
LEMMA AscendingFacts ==
  ASSUME NEW S \in SUBSET Int, IsFiniteSet(S)
  PROVE  /\ Ascending(S) \in [1 .. Cardinality(S) -> S] /\ Cardinality(S) \in Nat
         /\ \A i, j \in 1 .. Cardinality(S) : i < j => Ascending(S)[i] < Ascending(S)[j]
         /\ \A x \in S : \E i \in 1 .. Cardinality(S) : Ascending(S)[i] = x
<1> DEFINE n == Cardinality(S)
           q == Ascending(S)
<1>1. q \in [1 .. n -> S] /\ \A i, j \in DOMAIN q : i < j => q[i] < q[j]
  BY AscendingExists DEF Ascending, IsAscending
<1>2. n \in Nat
  BY FS_CardinalityType
<1>3. Cardinality(1 .. n) = n
  BY <1>2, FS_Interval
<1> HIDE DEF q
<1>4. q \in Injection(1 .. n, S)
  <2>1. \A i, j \in 1 .. n : q[i] = q[j] => i = j
    <3> SUFFICES ASSUME NEW i \in 1 .. n, NEW j \in 1 .. n, i < j PROVE q[i] # q[j]
      BY <1>2
    <3>1. q[i] < q[j] /\ q[i] \in Int /\ q[j] \in Int
      BY <1>1
    <3>2. QED
      BY <3>1
  <2>2. QED
    BY <1>1, <2>1 DEF Injection, IsInjective
<1>5. q \in Surjection(1 .. n, S)
  BY <1>3, <1>4, FS_Injection
<1>6. \A x \in S : \E i \in 1 .. n : q[i] = x
  BY <1>5 DEF Surjection
<1>7. QED
  BY <1>1, <1>2, <1>6 DEF q

-----------------------------------------------------------------------------
(* Positions in a queue *)

(* The position of an order that is in a queue is one of the queue's. *)
LEMMA PositionInQueue ==
  ASSUME NEW queue \in Seq(Order), NEW id, Places(queue, id) # {}
  PROVE  Position(queue, id) \in DOMAIN queue
<1>1. Places(queue, id) \in SUBSET Nat
  BY DEF Places
<1>2. Position(queue, id) \in Places(queue, id)
  BY <1>1, MinIsMember DEF Position
<1>3. QED
  BY <1>2 DEF Places

LEMMA PositionIsPlace ==
  ASSUME NEW queue \in Seq(Order), NEW id, Places(queue, id) # {}
  PROVE  Position(queue, id) \in Places(queue, id)
BY MinIsMember DEF Places, Position

(* Removing one element keeps the others, in order. *)
LEMMA RemovedFacts ==
  ASSUME NEW S, NEW queue \in Seq(S), NEW i \in DOMAIN queue
  PROVE  /\ RemoveAt(queue, i) \in Seq(S)
         /\ Len(RemoveAt(queue, i)) = Len(queue) - 1
         /\ \A j \in DOMAIN RemoveAt(queue, i) :
              RemoveAt(queue, i)[j] = queue[IF j < i THEN j ELSE j + 1]
<1> DEFINE front == SubSeq(queue, 1, i - 1)
           back == SubSeq(queue, i + 1, Len(queue))
<1>1. i \in 1 .. Len(queue) /\ Len(queue) \in Nat
  OBVIOUS
<1>2. /\ front \in Seq(S) /\ Len(front) = i - 1
      /\ \A j \in 1 .. i - 1 : front[j] = queue[j]
  BY <1>1
<1>3. /\ back \in Seq(S) /\ Len(back) = Len(queue) - i
      /\ \A j \in 1 .. Len(queue) - i : back[j] = queue[i + j]
  BY <1>1
<1>4. RemoveAt(queue, i) = front \o back
  BY DEF RemoveAt
<1> HIDE DEF front, back
<1> DEFINE rest == front \o back
<1>5. /\ rest \in Seq(S) /\ Len(rest) = Len(front) + Len(back)
      /\ \A j \in 1 .. Len(front) : rest[j] = front[j]
      /\ \A j \in 1 .. Len(back) : rest[Len(front) + j] = back[j]
  <2>1. front \in Seq(S)
    BY <1>2
  <2>2. back \in Seq(S)
    BY <1>3
  <2>3. QED
    BY <2>1, <2>2, Joined
<1>6. rest = RemoveAt(queue, i)
  BY <1>4
<1> HIDE DEF rest
<1>7. Len(rest) = Len(queue) - 1 /\ DOMAIN rest = 1 .. Len(queue) - 1
  BY <1>1, <1>2, <1>3, <1>5
<1>8. ASSUME NEW j \in 1 .. Len(queue) - 1
      PROVE  rest[j] = queue[IF j < i THEN j ELSE j + 1]
  <2>1. CASE j < i
    <3>1. j \in 1 .. i - 1
      BY <1>1, <2>1
    <3>2. QED
      BY <1>2, <1>5, <2>1, <3>1
  <2>2. CASE ~ (j < i)
    <3> DEFINE m == j - i + 1
    <3>1. m \in 1 .. Len(queue) - i /\ (i - 1) + m = j /\ i + m = j + 1
      BY <1>1, <2>2
    <3> HIDE DEF m
    <3>2. rest[j] = back[m] /\ back[m] = queue[j + 1]
      BY <1>2, <1>3, <1>5, <3>1
    <3>3. QED
      BY <2>2, <3>2
  <2>3. QED
    BY <2>1, <2>2
<1>9. QED
  BY <1>5, <1>6, <1>7, <1>8

LEMMA RemoveAtFacts ==
  ASSUME NEW queue \in Seq(Order), NEW i \in DOMAIN queue
  PROVE  /\ RemoveAt(queue, i) \in Seq(Order)
         /\ Len(RemoveAt(queue, i)) = Len(queue) - 1
         /\ \A j \in DOMAIN RemoveAt(queue, i) :
              RemoveAt(queue, i)[j] = queue[IF j < i THEN j ELSE j + 1]
BY RemovedFacts

-----------------------------------------------------------------------------
(* Storing a queue *)

(* SetQueue changes one level of one side, and drops it when it is empty. *)
LEMMA SetQueueFacts ==
  ASSUME NEW Prices, NEW b, IsBook(b, Prices), NEW s \in Side, NEW p \in Prices, NEW q \in Seq(Order)
  PROVE  /\ IsBook(SetQueue(b, s, p, q), Prices)
         /\ \A t \in Side : t # s => SetQueue(b, s, p, q)[t] = b[t]
         /\ q = <<>> => DOMAIN SetQueue(b, s, p, q)[s] = DOMAIN b[s] \ {p}
         /\ q # <<>> => DOMAIN SetQueue(b, s, p, q)[s] = DOMAIN b[s] \cup {p}
         /\ q # <<>> => SetQueue(b, s, p, q)[s][p] = q
         /\ \A x \in DOMAIN SetQueue(b, s, p, q)[s] :
              x # p => SetQueue(b, s, p, q)[s][x] = b[s][x]
<1> DEFINE prices == IF q = <<>> THEN DOMAIN b[s] \ {p} ELSE DOMAIN b[s] \cup {p}
           level == [x \in prices |-> IF x = p THEN q ELSE b[s][x]]
           c == SetQueue(b, s, p, q)
<1>1. c = [b EXCEPT ![s] = level]
  BY DEF SetQueue
<1>2. /\ prices \subseteq Prices
      /\ level \in [prices -> Seq(Order)]
  BY SMTT(20) DEF IsBook
<1>3. /\ DOMAIN b = Side
      /\ c[s] = level
      /\ \A t \in Side : t # s => c[t] = b[t]
      /\ c = [t \in Side |-> c[t]]
  <2>1. DOMAIN b = Side
    BY DEF IsBook
  <2> HIDE DEF level
  <2>2. QED
    BY <1>1, <2>1
<1>4. IsBook(c, Prices)
  <2>1. DOMAIN level = prices
    OBVIOUS
  <2> HIDE DEF c, level, prices
  <2>2. DOMAIN c[s] \subseteq Prices /\ c[s] \in [DOMAIN c[s] -> Seq(Order)]
    BY <1>2, <1>3, <2>1
  <2>3. ASSUME NEW t \in Side, t # s
        PROVE  DOMAIN c[t] \subseteq Prices /\ c[t] \in [DOMAIN c[t] -> Seq(Order)]
    BY <1>3, <2>3 DEF IsBook
  <2>4. QED
    BY <1>3, <2>2, <2>3 DEF IsBook
<1>5. QED
  BY <1>3, <1>4

LEMMA QueueAtType ==
  ASSUME NEW Prices, NEW b, IsBook(b, Prices), NEW s \in Side, NEW p
  PROVE  QueueAt(b, s, p) \in Seq(Order)
BY DEF IsBook, QueueAt

(* A cancel, or a reported trade, leaves a book, whatever the book was. *)
LEMMA CancelOrderBook ==
  ASSUME NEW P, NEW b, IsBook(b, P), NEW s \in Side, NEW p \in P, NEW id
  PROVE  IsBook(CancelOrder(b, s, p, id), P)
<1>1. CASE ~ HasOrder(b, s, p, id)
  BY <1>1 DEF CancelOrder
<1>2. CASE HasOrder(b, s, p, id)
  <2> DEFINE queue == b[s][p]
             i == Position(queue, id)
             q == RemoveAt(queue, i)
  <2>1. p \in DOMAIN b[s] /\ Places(queue, id) # {}
    BY <1>2 DEF HasOrder, QueueAt, Places
  <2>2. queue \in Seq(Order)
    BY <2>1 DEF IsBook
  <2>3. CancelOrder(b, s, p, id) = SetQueue(b, s, p, q)
    BY <1>2 DEF CancelOrder
  <2> HIDE DEF queue
  <2>4. i \in DOMAIN queue
    BY <2>1, <2>2, PositionInQueue
  <2> HIDE DEF i
  <2>5. q \in Seq(Order)
    BY <2>2, <2>4, RemoveAtFacts
  <2> HIDE DEF q
  <2>6. QED
    BY <2>3, <2>5, SetQueueFacts
<1>3. QED
  BY <1>1, <1>2

LEMMA ApplyTradeBook ==
  ASSUME NEW P, NEW b, IsBook(b, P), NEW s \in Side, NEW p \in P, NEW id, NEW qty \in Nat
  PROVE  IsBook(ApplyTrade(b, s, p, id, qty), P)
<1>1. CASE ~ HasOrder(b, s, p, id)
  BY <1>1 DEF ApplyTrade
<1>2. CASE HasOrder(b, s, p, id)
  <2> DEFINE queue == b[s][p]
             i == Position(queue, id)
             o == Reduced(queue[i], qty)
             q == IF qty >= queue[i].qty THEN RemoveAt(queue, i) ELSE [queue EXCEPT ![i] = o]
  <2>1. p \in DOMAIN b[s] /\ Places(queue, id) # {}
    BY <1>2 DEF HasOrder, QueueAt, Places
  <2>2. queue \in Seq(Order)
    BY <2>1 DEF IsBook
  <2>3. ApplyTrade(b, s, p, id, qty) = SetQueue(b, s, p, q)
    BY <1>2 DEF ApplyTrade
  <2> HIDE DEF queue
  <2>4. i \in DOMAIN queue
    BY <2>1, <2>2, PositionInQueue
  <2> HIDE DEF i
  <2>5. q \in Seq(Order)
    <3>1. CASE qty >= queue[i].qty
      BY <2>2, <2>4, <3>1, RemoveAtFacts
    <3>2. CASE ~ (qty >= queue[i].qty)
      <4>0. queue[i] \in Order
        BY <2>2, <2>4
      <4>1. queue[i] \in Order /\ queue[i].qty \in Nat
        BY <4>0 DEF Order
      <4>2. qty < queue[i].qty
        BY <3>2, <4>1
      <4>3. o \in Order
        BY <4>1, <4>2 DEF Order, Reduced
      <4> HIDE DEF o
      <4>4. [queue EXCEPT ![i] = o] \in Seq(Order)
        BY <2>2, <2>4, <4>3
      <4>5. QED
        BY <3>2, <4>4
    <3>3. QED
      BY <3>1, <3>2
  <2> HIDE DEF q
  <2>6. QED
    BY <2>3, <2>5, SetQueueFacts
<1>3. QED
  BY <1>1, <1>2

-----------------------------------------------------------------------------
(* Live levels *)

AllLive(queue) == \A i \in DOMAIN queue : queue[i].qty > 0

LiveBook(b) == \A s \in Side : \A p \in DOMAIN b[s] : b[s][p] # <<>> /\ AllLive(b[s][p])

(* A queue of live orders can be stored anywhere: an empty one leaves no level. *)
LEMMA SetQueueLive ==
  ASSUME NEW Prices, NEW b, IsBook(b, Prices), LiveBook(b),
         NEW s \in Side, NEW p \in Prices, NEW q \in Seq(Order), AllLive(q)
  PROVE  IsBook(SetQueue(b, s, p, q), Prices) /\ LiveBook(SetQueue(b, s, p, q))
<1>1. IsBook(SetQueue(b, s, p, q), Prices)
  BY SetQueueFacts
<1> DEFINE c == SetQueue(b, s, p, q)
<1>2. /\ \A t \in Side : t # s => c[t] = b[t]
      /\ q = <<>> => DOMAIN c[s] = DOMAIN b[s] \ {p}
      /\ q # <<>> => DOMAIN c[s] = DOMAIN b[s] \cup {p}
      /\ q # <<>> => c[s][p] = q
      /\ \A x \in DOMAIN c[s] : x # p => c[s][x] = b[s][x]
  BY SetQueueFacts
<1> HIDE DEF c
<1>3. ASSUME NEW t \in Side, NEW x \in DOMAIN c[t]
      PROVE  c[t][x] # <<>> /\ AllLive(c[t][x])
  <2>1. CASE t # s
    BY <1>2, <2>1 DEF LiveBook
  <2>2. CASE t = s /\ x = p
    BY <1>2, <2>2
  <2>3. CASE t = s /\ x # p
    <3>1. x \in DOMAIN b[s] /\ c[s][x] = b[s][x]
      BY <1>2, <2>3
    <3>2. QED
      BY <2>3, <3>1 DEF LiveBook
  <2>4. QED
    BY <2>1, <2>2, <2>3
<1>4. QED
  BY <1>1, <1>3 DEF LiveBook, c

LEMMA RestOrderLive ==
  ASSUME NEW Prices, NEW b, IsBook(b, Prices), LiveBook(b),
         NEW s \in Side, NEW p \in Prices, NEW o \in Order, o.qty > 0
  PROVE  IsBook(RestOrder(b, s, p, o), Prices) /\ LiveBook(RestOrder(b, s, p, o))
<1> DEFINE queue == QueueAt(b, s, p)
<1>1. queue \in Seq(Order)
  BY QueueAtType
<1>2. AllLive(queue)
  BY DEF LiveBook, QueueAt, AllLive
<1> HIDE DEF queue
<1>3. Append(queue, o) \in Seq(Order) /\ AllLive(Append(queue, o))
  BY <1>1, <1>2 DEF AllLive
<1>4. QED
  BY <1>3, SetQueueLive DEF RestOrder, queue

LEMMA CancelOrderLive ==
  ASSUME NEW Prices, NEW b, IsBook(b, Prices), LiveBook(b),
         NEW s \in Side, NEW p \in Prices, NEW id
  PROVE  IsBook(CancelOrder(b, s, p, id), Prices) /\ LiveBook(CancelOrder(b, s, p, id))
<1>1. CASE ~ HasOrder(b, s, p, id)
  BY <1>1 DEF CancelOrder
<1>2. CASE HasOrder(b, s, p, id)
  <2> DEFINE queue == b[s][p]
             i == Position(queue, id)
  <2>1. p \in DOMAIN b[s] /\ Places(queue, id) # {}
    BY <1>2 DEF HasOrder, QueueAt, Places
  <2>2. queue \in Seq(Order) /\ AllLive(queue)
    BY <2>1 DEF IsBook, LiveBook
  <2> HIDE DEF queue
  <2>3. i \in DOMAIN queue
    BY <2>1, <2>2, PositionInQueue
  <2> HIDE DEF i
  <2>4. RemoveAt(queue, i) \in Seq(Order) /\ AllLive(RemoveAt(queue, i))
    BY <2>2, <2>3, RemoveAtFacts DEF AllLive
  <2>5. CancelOrder(b, s, p, id) = SetQueue(b, s, p, RemoveAt(queue, i))
    BY <1>2 DEF CancelOrder, queue, i
  <2>6. QED
    BY <2>4, <2>5, SetQueueLive
<1>3. QED
  BY <1>1, <1>2

(* A reported trade of an order, wherever it is in its queue, consumes it or *)
(* leaves something of it, so nothing consumed stays behind.                 *)
LEMMA ApplyTradeLive ==
  ASSUME NEW Prices, NEW b, IsBook(b, Prices), LiveBook(b),
         NEW s \in Side, NEW p \in Prices, NEW id, NEW qty \in Nat
  PROVE  LiveBook(ApplyTrade(b, s, p, id, qty))
<1>1. CASE ~ HasOrder(b, s, p, id)
  BY <1>1 DEF ApplyTrade
<1>2. CASE HasOrder(b, s, p, id)
  <2> DEFINE queue == b[s][p]
             i == Position(queue, id)
             o == Reduced(queue[i], qty)
             q == IF qty >= queue[i].qty THEN RemoveAt(queue, i) ELSE [queue EXCEPT ![i] = o]
  <2>1. p \in DOMAIN b[s] /\ Places(queue, id) # {}
    BY <1>2 DEF HasOrder, QueueAt, Places
  <2>2. queue \in Seq(Order) /\ AllLive(queue)
    BY <2>1 DEF IsBook, LiveBook
  <2>3. ApplyTrade(b, s, p, id, qty) = SetQueue(b, s, p, q)
    BY <1>2 DEF ApplyTrade
  <2> HIDE DEF queue
  <2>4. i \in DOMAIN queue
    BY <2>1, <2>2, PositionInQueue
  <2> HIDE DEF i
  <2>5. q \in Seq(Order) /\ AllLive(q)
    <3>1. CASE qty >= queue[i].qty
      <4> DEFINE c == RemoveAt(queue, i)
      <4>1. /\ c \in Seq(Order) /\ Len(c) = Len(queue) - 1
            /\ \A j \in DOMAIN c : c[j] = queue[IF j < i THEN j ELSE j + 1]
        BY <2>2, <2>4, RemoveAtFacts
      <4> HIDE DEF c
      <4>2. ASSUME NEW j \in DOMAIN c PROVE c[j].qty > 0
        <5> DEFINE k == IF j < i THEN j ELSE j + 1
        <5>1. k \in DOMAIN queue
          BY <2>2, <2>4, <4>1
        <5>2. c[j] = queue[k]
          BY <4>1
        <5> HIDE DEF k
        <5>3. QED
          BY <2>2, <5>1, <5>2 DEF AllLive
      <4>3. AllLive(c)
        BY <4>2 DEF AllLive
      <4>4. QED
        BY <3>1, <4>1, <4>3 DEF c
    <3>2. CASE ~ (qty >= queue[i].qty)
      <4>1. queue[i] \in Order
        BY <2>2, <2>4
      <4>2. queue[i].qty \in Nat /\ qty < queue[i].qty
        BY <3>2, <4>1 DEF Order
      <4>3. o \in Order /\ o.qty > 0
        BY <4>1, <4>2 DEF Order, Reduced
      <4> HIDE DEF o
      <4> DEFINE r == [queue EXCEPT ![i] = o]
      <4>4. r \in Seq(Order) /\ DOMAIN r = DOMAIN queue
        BY <2>2, <2>4, <4>3
      <4>5. \A k \in DOMAIN queue : r[k] = IF k = i THEN o ELSE queue[k]
        BY <2>2
      <4> HIDE DEF r
      <4>6. AllLive(r)
        BY <2>2, <4>3, <4>4, <4>5 DEF AllLive
      <4>7. QED
        BY <3>2, <4>4, <4>6 DEF r
    <3>3. QED
      BY <3>1, <3>2
  <2> HIDE DEF q
  <2>6. QED
    BY <2>3, <2>5, SetQueueLive
<1>3. QED
  BY <1>1, <1>2

\* The same order, perhaps partly filled.
Same(o, u) == /\ o.id = u.id /\ o.ours = u.ours
              /\ o.qty = u.qty \/ o.qty < u.qty

LEMMA ReducedFacts ==
  ASSUME NEW o \in Order, NEW qty \in Nat, qty < o.qty
  PROVE  /\ Reduced(o, qty) \in Order
         /\ Reduced(o, qty).qty > 0
         /\ Reduced(o, qty).id = o.id /\ Reduced(o, qty).ours = o.ours
         /\ Reduced(o, qty).qty = o.qty \/ Reduced(o, qty).qty < o.qty
BY DEF Order, Reduced

(* What a fill leaves of the front of a queue. *)
Filled(queue, qty) ==
  IF qty = queue[1].qty THEN Tail(queue)
  ELSE [queue EXCEPT ![1] = Reduced(queue[1], qty)]

LEMMA FilledFacts ==
  ASSUME NEW queue \in Seq(Order), queue # <<>>, AllLive(queue),
         NEW qty \in Nat, qty <= queue[1].qty
  PROVE  /\ Filled(queue, qty) \in Seq(Order) /\ AllLive(Filled(queue, qty))
         /\ qty = queue[1].qty =>
              /\ Len(Filled(queue, qty)) = Len(queue) - 1
              /\ \A i \in DOMAIN Filled(queue, qty) : Filled(queue, qty)[i] = queue[i + 1]
         /\ qty # queue[1].qty =>
              /\ Len(Filled(queue, qty)) = Len(queue)
              /\ \A i \in DOMAIN queue : Same(Filled(queue, qty)[i], queue[i])
<1>1. Len(queue) \in Nat /\ 1 \in DOMAIN queue /\ queue[1] \in Order
  OBVIOUS
<1>2. CASE qty = queue[1].qty
  BY <1>1, <1>2 DEF Filled, AllLive
<1>3. CASE qty # queue[1].qty
  <2> DEFINE o == Reduced(queue[1], qty)
  <2>1. o \in Order /\ o.qty > 0 /\ Same(o, queue[1])
    <3>1. qty < queue[1].qty
      BY <1>1, <1>3 DEF Order
    <3>2. QED
      BY <1>1, <3>1, ReducedFacts DEF Same
  <2>2. Filled(queue, qty) = [queue EXCEPT ![1] = o]
    BY <1>3 DEF Filled
  <2> HIDE DEF o
  <2>3. /\ [queue EXCEPT ![1] = o] \in Seq(Order)
        /\ Len([queue EXCEPT ![1] = o]) = Len(queue)
        /\ DOMAIN [queue EXCEPT ![1] = o] = DOMAIN queue
        /\ \A i \in DOMAIN queue : [queue EXCEPT ![1] = o][i] = IF i = 1 THEN o ELSE queue[i]
    BY <1>1, <2>1
  <2>4. QED
    BY <1>3, <2>1, <2>2, <2>3 DEF AllLive, Same
<1>4. QED
  BY <1>2, <1>3

LEMMA OpposingIsSide == ASSUME NEW s \in Side PROVE Opposite(s) \in Side /\ Opposite(s) # s
BY DEF Side, Opposite

-----------------------------------------------------------------------------
(* Order of arrival *)

InOrder(b) ==
  \A s \in Side : \A p \in DOMAIN b[s] : \A i, j \in DOMAIN b[s][p] :
    i < j => b[s][p][i].id < b[s][p][j].id

OneOrderPerId(b) ==
  \A s, t \in Side : \A p \in DOMAIN b[s], q \in DOMAIN b[t] :
    \A i \in DOMAIN b[s][p], j \in DOMAIN b[t][q] :
      b[s][p][i].id = b[t][q][j].id => s = t /\ p = q /\ i = j

\* A book with finitely many levels.
Finite(b) == \A s \in Side : IsFiniteSet(DOMAIN b[s])

\* A book as the operations leave it.
Sound(b, Prices) ==
  IsBook(b, Prices) /\ LiveBook(b) /\ InOrder(b) /\ OneOrderPerId(b) /\ Finite(b)

\* Every id on the book is one of 1 .. n.
IdsUpTo(b, n) ==
  \A s \in Side : \A p \in DOMAIN b[s] : \A i \in DOMAIN b[s][p] : b[s][p][i].id \in 1 .. n

\* The orders of c are some of those of b, where they were.
Thinned(b, c) ==
  \A s \in Side :
    /\ DOMAIN c[s] \subseteq DOMAIN b[s]
    /\ \A p \in DOMAIN c[s] : \A i \in DOMAIN c[s][p] :
         \E j \in DOMAIN b[s][p] : Same(c[s][p][i], b[s][p][j])

\* The orders of c are those of b, and o at price p.
Extended(b, c, s, p, o) ==
  \A t \in Side :
    /\ t # s => c[t] = b[t]
    /\ DOMAIN c[s] = DOMAIN b[s] \cup {p}
    /\ \A x \in DOMAIN c[t] : \A i \in DOMAIN c[t][x] :
         \/ t = s /\ x = p /\ c[t][x][i] = o
         \/ x \in DOMAIN b[t] /\ i \in DOMAIN b[t][x] /\ c[t][x][i] = b[t][x][i]

\* The two sides of book b do not meet.
Apart(b) == \A x \in DOMAIN b["Bid"], y \in DOMAIN b["Ask"] : x < y

\* A thinned queue: the orders of q are some of those of queue, in its order.
Thins(f, q, queue) ==
  /\ f \in [DOMAIN q -> DOMAIN queue]
  /\ \A i, j \in DOMAIN q : i < j => f[i] < f[j]
  /\ \A i \in DOMAIN q : Same(q[i], queue[f[i]])

LEMMA ThinnedIds ==
  ASSUME NEW b, NEW c, Thinned(b, c), NEW n, IdsUpTo(b, n)
  PROVE  IdsUpTo(c, n)
BY DEF Thinned, IdsUpTo, Same

(* Sides that do not meet do not when levels have gone ... *)
LEMMA ThinnedApart ==
  ASSUME NEW b, NEW c, Thinned(b, c), Apart(b)
  PROVE  Apart(c)
BY DEF Thinned, Apart, Side

(* ... or when an order has come to rest away from the other side. *)
LEMMA RestApart ==
  ASSUME NEW P \in SUBSET Int, NEW b, IsBook(b, P), Apart(b), NEW c, NEW s \in Side, NEW p \in P,
         NEW o, Extended(b, c, s, p, o), \A v \in DOMAIN b[Opposite(s)] : ~ Crosses(s, p, v)
  PROVE  Apart(c)
<1> SUFFICES ASSUME NEW x \in DOMAIN c["Bid"], NEW y \in DOMAIN c["Ask"] PROVE x < y
  BY DEF Apart
<1>1. (\A t \in Side : DOMAIN b[t] \subseteq Int) /\ p \in Int
  BY DEF IsBook
<1>2. /\ \A t \in Side : t # s => c[t] = b[t]
      /\ DOMAIN c[s] = DOMAIN b[s] \cup {p}
  BY DEF Extended
<1>3. CASE s = "Bid"
  <2>1. y \in DOMAIN b["Ask"] /\ y \in Int /\ ~ (p >= y) /\ (x = p \/ x \in DOMAIN b["Bid"])
    BY <1>1, <1>2, <1>3 DEF Crosses, Opposite, Side
  <2>2. QED
    BY <1>1, <2>1 DEF Apart
<1>4. CASE s = "Ask"
  <2>1. x \in DOMAIN b["Bid"] /\ x \in Int /\ ~ (p <= x) /\ (y = p \/ y \in DOMAIN b["Ask"])
    BY <1>1, <1>2, <1>4 DEF Crosses, Opposite, Side
  <2>2. QED
    BY <1>1, <2>1 DEF Apart
<1>5. QED
  BY <1>3, <1>4 DEF Side

LEMMA ThinnedTwice ==
  ASSUME NEW Prices, NEW b, NEW c, NEW d, Sound(b, Prices), Sound(c, Prices), Sound(d, Prices),
         Thinned(b, c), Thinned(c, d)
  PROVE  Thinned(b, d)
<1> SUFFICES ASSUME NEW s \in Side
             PROVE  /\ DOMAIN d[s] \subseteq DOMAIN b[s]
                    /\ \A p \in DOMAIN d[s] : \A i \in DOMAIN d[s][p] :
                         \E j \in DOMAIN b[s][p] : Same(d[s][p][i], b[s][p][j])
  BY DEF Thinned
<1>1. DOMAIN d[s] \subseteq DOMAIN c[s] /\ DOMAIN c[s] \subseteq DOMAIN b[s]
  BY DEF Thinned
<1>2. ASSUME NEW p \in DOMAIN d[s], NEW i \in DOMAIN d[s][p]
      PROVE  \E j \in DOMAIN b[s][p] : Same(d[s][p][i], b[s][p][j])
  <2>1. PICK k \in DOMAIN c[s][p] : Same(d[s][p][i], c[s][p][k])
    BY DEF Thinned
  <2>2. PICK j \in DOMAIN b[s][p] : Same(c[s][p][k], b[s][p][j])
    BY <1>1 DEF Thinned
  <2>3. d[s][p][i] \in Order /\ c[s][p][k] \in Order /\ b[s][p][j] \in Order
    <3>1. d[s][p] \in Seq(Order) /\ c[s][p] \in Seq(Order) /\ b[s][p] \in Seq(Order)
      BY <1>1 DEF Sound, IsBook
    <3>2. QED
      BY <3>1
  <2>4. d[s][p][i].qty \in Nat /\ c[s][p][k].qty \in Nat /\ b[s][p][j].qty \in Nat
    BY <2>3 DEF Order
  <2>5. Same(d[s][p][i], b[s][p][j])
    BY <2>1, <2>2, <2>4 DEF Same
  <2>6. QED
    BY <2>5
<1>3. QED
  BY <1>1, <1>2

-----------------------------------------------------------------------------
(* Thinning a queue of the book *)

LEMMA ThinnedBook ==
  ASSUME NEW Prices, NEW b, Sound(b, Prices),
         NEW s \in Side, NEW p \in DOMAIN b[s],
         NEW q \in Seq(Order), NEW f, Thins(f, q, b[s][p]), AllLive(q)
  PROVE  Sound(SetQueue(b, s, p, q), Prices) /\ Thinned(b, SetQueue(b, s, p, q))
<1> USE DEF Sound
<1> DEFINE c == SetQueue(b, s, p, q)
<1>0. p \in Prices
  BY DEF IsBook
<1>1. /\ \A t \in Side : t # s => c[t] = b[t]
      /\ q = <<>> => DOMAIN c[s] = DOMAIN b[s] \ {p}
      /\ q # <<>> => DOMAIN c[s] = DOMAIN b[s] \cup {p}
      /\ q # <<>> => c[s][p] = q
      /\ \A x \in DOMAIN c[s] : x # p => c[s][x] = b[s][x]
  BY <1>0, SetQueueFacts
<1> HIDE DEF c
<1> DEFINE g(t, x, i) == IF t = s /\ x = p THEN f[i] ELSE i
<1>2. p \in DOMAIN c[s] => q # <<>> /\ c[s][p] = q
  BY <1>1
<1>3. DOMAIN c[s] \subseteq DOMAIN b[s]
  BY <1>1
<1>4. ASSUME NEW t \in Side, NEW x \in DOMAIN c[t], NEW i \in DOMAIN c[t][x]
      PROVE  /\ x \in DOMAIN b[t] /\ g(t, x, i) \in DOMAIN b[t][x]
             /\ Same(c[t][x][i], b[t][x][g(t, x, i)])
  <2>1. CASE t # s
    BY <1>1, <2>1 DEF Same
  <2>2. CASE t = s /\ x # p
    BY <1>1, <1>3, <2>2 DEF Same
  <2>3. CASE t = s /\ x = p
    <3>1. c[t][x] = q /\ i \in DOMAIN q
      BY <1>2, <2>3
    <3>2. f[i] \in DOMAIN b[s][p] /\ Same(q[i], b[s][p][f[i]])
      BY <3>1 DEF Thins
    <3>3. QED
      BY <2>3, <3>1, <3>2
  <2>4. QED
    BY <2>1, <2>2, <2>3
<1>5. ASSUME NEW t \in Side, NEW x \in DOMAIN c[t], NEW i \in DOMAIN c[t][x], NEW j \in DOMAIN c[t][x]
      PROVE  /\ i \in Int /\ j \in Int
             /\ i < j => g(t, x, i) < g(t, x, j)
  <2>1. CASE t = s /\ x = p
    <3>1. i \in DOMAIN q /\ j \in DOMAIN q /\ DOMAIN q \subseteq Int
      BY <1>2, <2>1
    <3>2. QED
      BY <2>1, <3>1 DEF Thins
  <2>2. CASE ~ (t = s /\ x = p)
    <3>1. x \in DOMAIN b[t] /\ i \in DOMAIN b[t][x] /\ j \in DOMAIN b[t][x]
      BY <1>4, <2>2
    <3>2. b[t][x] \in Seq(Order)
      BY <3>1 DEF IsBook
    <3>3. QED
      BY <2>2, <3>1, <3>2
  <2>3. QED
    BY <2>1, <2>2
<1>6. InOrder(c)
  <2> SUFFICES ASSUME NEW t \in Side, NEW x \in DOMAIN c[t],
                      NEW i \in DOMAIN c[t][x], NEW j \in DOMAIN c[t][x], i < j
               PROVE  c[t][x][i].id < c[t][x][j].id
    BY DEF InOrder
  <2>1. g(t, x, i) < g(t, x, j)
    BY <1>5
  <2>2. /\ x \in DOMAIN b[t] /\ g(t, x, i) \in DOMAIN b[t][x] /\ g(t, x, j) \in DOMAIN b[t][x]
        /\ c[t][x][i].id = b[t][x][g(t, x, i)].id
        /\ c[t][x][j].id = b[t][x][g(t, x, j)].id
    BY <1>4 DEF Same
  <2> HIDE DEF g
  <2>3. QED
    BY <2>1, <2>2 DEF InOrder
<1>7. OneOrderPerId(c)
  <2> SUFFICES ASSUME NEW t \in Side, NEW u \in Side, NEW x \in DOMAIN c[t], NEW y \in DOMAIN c[u],
                      NEW i \in DOMAIN c[t][x], NEW j \in DOMAIN c[u][y],
                      c[t][x][i].id = c[u][y][j].id
               PROVE  t = u /\ x = y /\ i = j
    BY DEF OneOrderPerId
  <2>1. /\ x \in DOMAIN b[t] /\ g(t, x, i) \in DOMAIN b[t][x]
        /\ c[t][x][i].id = b[t][x][g(t, x, i)].id
    BY <1>4 DEF Same
  <2>2. /\ y \in DOMAIN b[u] /\ g(u, y, j) \in DOMAIN b[u][y]
        /\ c[u][y][j].id = b[u][y][g(u, y, j)].id
    BY <1>4 DEF Same
  <2>3. t = u /\ x = y /\ g(t, x, i) = g(u, y, j)
    <3> HIDE DEF g
    <3>1. b[t][x][g(t, x, i)].id = b[u][y][g(u, y, j)].id
      BY <2>1, <2>2
    <3>2. \A m \in DOMAIN b[t][x], n \in DOMAIN b[u][y] :
            b[t][x][m].id = b[u][y][n].id => t = u /\ x = y /\ m = n
      BY <2>1, <2>2 DEF OneOrderPerId
    <3>3. QED
      BY <2>1, <2>2, <3>1, <3>2
  <2>4. j \in DOMAIN c[t][x] /\ g(t, x, i) = g(t, x, j)
    BY <2>3
  <2>5. /\ i \in Int /\ j \in Int
        /\ i < j => g(t, x, i) < g(t, x, j)
        /\ j < i => g(t, x, j) < g(t, x, i)
    BY <1>5, <2>4
  <2>6. g(t, x, i) \in Int
    <3>1. b[t][x] \in Seq(Order)
      BY <2>1 DEF IsBook
    <3> HIDE DEF g
    <3>2. QED
      BY <2>1, <3>1
  <2> HIDE DEF g
  <2>7. i = j
    BY <2>4, <2>5, <2>6
  <2>8. QED
    BY <2>3, <2>7
<1>8. Thinned(b, c)
  <2> SUFFICES ASSUME NEW t \in Side
               PROVE  /\ DOMAIN c[t] \subseteq DOMAIN b[t]
                      /\ \A x \in DOMAIN c[t] : \A i \in DOMAIN c[t][x] :
                           \E j \in DOMAIN b[t][x] : Same(c[t][x][i], b[t][x][j])
    BY DEF Thinned
  <2>1. DOMAIN c[t] \subseteq DOMAIN b[t]
    BY <1>1
  <2> HIDE DEF g
  <2>2. QED
    BY <1>4, <2>1
<1>9. IsBook(c, Prices) /\ LiveBook(c)
  BY <1>0, SetQueueLive DEF c
<1>10. Finite(c)
  BY <1>8, FS_Subset DEF Thinned, Finite, Sound
<1>11. QED
  BY <1>6, <1>7, <1>8, <1>9, <1>10 DEF c

\* Removing an order thins its queue.
LEMMA RemovalThins ==
  ASSUME NEW queue \in Seq(Order), NEW i \in DOMAIN queue
  PROVE  \E f : Thins(f, RemoveAt(queue, i), queue)
<1> DEFINE q == RemoveAt(queue, i)
           f == [j \in DOMAIN q |-> IF j < i THEN j ELSE j + 1]
<1>1. /\ q \in Seq(Order) /\ Len(q) = Len(queue) - 1
      /\ \A j \in DOMAIN q : q[j] = queue[IF j < i THEN j ELSE j + 1]
  BY RemoveAtFacts
<1>2. i \in 1 .. Len(queue) /\ Len(queue) \in Nat
  OBVIOUS
<1> HIDE DEF q
<1>3. DOMAIN q = 1 .. Len(queue) - 1
  BY <1>1, <1>2
<1>4. f \in [DOMAIN q -> DOMAIN queue]
  BY <1>2, <1>3
<1>5. \A j, k \in DOMAIN q : j < k => f[j] < f[k]
  BY <1>2, <1>3
<1>6. \A j \in DOMAIN q : Same(q[j], queue[f[j]])
  BY <1>1 DEF Same
<1>7. QED
  BY <1>4, <1>5, <1>6 DEF Thins, q

\* A fill thins the queue it takes the front of, or leaves all its ids.
LEMMA FillThins ==
  ASSUME NEW queue \in Seq(Order), queue # <<>>, AllLive(queue),
         NEW qty \in Nat, qty <= queue[1].qty
  PROVE  \E f : Thins(f, Filled(queue, qty), queue)
<1> DEFINE q == Filled(queue, qty)
<1>1. /\ q \in Seq(Order)
      /\ qty = queue[1].qty =>
           /\ Len(q) = Len(queue) - 1
           /\ \A i \in DOMAIN q : q[i] = queue[i + 1]
      /\ qty # queue[1].qty =>
           /\ Len(q) = Len(queue)
           /\ \A i \in DOMAIN queue : Same(q[i], queue[i])
  BY FilledFacts DEF Same
<1>2. Len(queue) \in Nat \ {0} /\ DOMAIN queue = 1 .. Len(queue)
  OBVIOUS
<1> HIDE DEF q
<1>3. CASE qty = queue[1].qty
  <2> DEFINE f == [j \in DOMAIN q |-> j + 1]
  <2>1. DOMAIN q = 1 .. Len(queue) - 1
    BY <1>1, <1>2, <1>3
  <2>2. f \in [DOMAIN q -> DOMAIN queue] /\ \A j, k \in DOMAIN q : j < k => f[j] < f[k]
    BY <1>2, <2>1
  <2>3. \A j \in DOMAIN q : Same(q[j], queue[f[j]])
    BY <1>1, <1>3 DEF Same
  <2>4. QED
    BY <2>2, <2>3 DEF Thins, q
<1>4. CASE qty # queue[1].qty
  <2> DEFINE f == [j \in DOMAIN q |-> j]
  <2>0. Len(q) = Len(queue) /\ q \in Seq(Order)
    BY <1>1, <1>4
  <2>1. DOMAIN q = DOMAIN queue
    BY <1>2, <2>0
  <2>2. f \in [DOMAIN q -> DOMAIN queue] /\ \A j, k \in DOMAIN q : j < k => f[j] < f[k]
    BY <2>1
  <2>3. \A j \in DOMAIN q : Same(q[j], queue[f[j]])
    BY <1>1, <1>4, <2>1 DEF Same
  <2>4. QED
    BY <2>2, <2>3 DEF Thins, q
<1>5. QED
  BY <1>3, <1>4

-----------------------------------------------------------------------------
(* The operations of the book *)

LEMMA EmptyIsSound ==
  ASSUME NEW Prices
  PROVE  /\ Sound(EmptyBook, Prices) /\ \A n : IdsUpTo(EmptyBook, n)
         /\ \A s \in Side : DOMAIN EmptyBook[s] = {}
<1>1. \A s \in Side : DOMAIN EmptyBook[s] = {}
  BY DEF EmptyBook
<1>2. IsBook(EmptyBook, Prices)
  BY DEF EmptyBook, IsBook
<1>3. Finite(EmptyBook)
  BY <1>1, FS_EmptySet DEF Finite
<1>4. LiveBook(EmptyBook) /\ InOrder(EmptyBook) /\ OneOrderPerId(EmptyBook)
  BY <1>1 DEF LiveBook, InOrder, OneOrderPerId
<1>5. \A n : IdsUpTo(EmptyBook, n)
  BY <1>1 DEF IdsUpTo
<1>6. QED
  BY <1>1, <1>2, <1>3, <1>4, <1>5 DEF Sound

\* One fill: the queue loses its front order, or that order some of its quantity.
LEMMA FillSound ==
  ASSUME NEW Prices, NEW b, Sound(b, Prices), NEW s \in Side, NEW p \in DOMAIN b[s],
         NEW qty \in Nat, qty <= b[s][p][1].qty
  PROVE  /\ Sound(FillFront(b, s, p, qty), Prices)
         /\ Thinned(b, FillFront(b, s, p, qty))
<1> DEFINE queue == b[s][p]
           q == Filled(queue, qty)
<1>1. queue \in Seq(Order) /\ queue # <<>> /\ AllLive(queue)
  BY DEF Sound, IsBook, LiveBook
<1>2. FillFront(b, s, p, qty) = SetQueue(b, s, p, q)
  BY DEF FillFront, Filled
<1>3. qty <= queue[1].qty
  OBVIOUS
<1> HIDE DEF queue
<1>4. q \in Seq(Order) /\ AllLive(q)
  BY <1>1, <1>3, FilledFacts
<1>5. PICK f : Thins(f, q, queue)
  BY <1>1, <1>3, FillThins
<1> HIDE DEF q
<1>6. Thins(f, q, b[s][p])
  BY <1>5 DEF queue
<1>7. Sound(SetQueue(b, s, p, q), Prices) /\ Thinned(b, SetQueue(b, s, p, q))
  BY <1>4, <1>6, ThinnedBook
<1>8. QED
  BY <1>2, <1>7

(* A fill touches the oldest order of its level only. *)
LEMMA OthersStay ==
  ASSUME NEW Prices, NEW b, Sound(b, Prices), NEW s \in Side, NEW p \in DOMAIN b[s],
         NEW qty \in Nat, qty <= b[s][p][1].qty
  PROVE  LET c == FillFront(b, s, p, qty)
         IN  /\ \A t \in Side : t # s => c[t] = b[t]
             /\ \A x \in DOMAIN b[s] : \A i \in DOMAIN b[s][x] :
                  x # p \/ i # 1 =>
                    x \in DOMAIN c[s] /\ \E j \in DOMAIN c[s][x] : c[s][x][j] = b[s][x][i]
<1> DEFINE queue == b[s][p]
           q == Filled(queue, qty)
           c == SetQueue(b, s, p, q)
<1>1. IsBook(b, Prices) /\ queue \in Seq(Order) /\ queue # <<>> /\ AllLive(queue) /\ p \in Prices
  BY DEF Sound, IsBook, LiveBook
<1>2. FillFront(b, s, p, qty) = c
  BY DEF FillFront, Filled
<1>3. qty <= queue[1].qty
  OBVIOUS
<1>4. queue = b[s][p]
  OBVIOUS
<1> HIDE DEF queue
<1>5. q \in Seq(Order)
  BY <1>1, <1>3, FilledFacts
<1>6. ASSUME NEW i \in DOMAIN queue, i # 1 PROVE q # <<>> /\ \E j \in DOMAIN q : q[j] = queue[i]
  <2>1. Len(queue) \in Nat /\ i \in 2 .. Len(queue)
    BY <1>1, <1>6
  <2>2. CASE qty = queue[1].qty
    <3>1. q = Tail(queue)
      BY <2>2 DEF Filled
    <3>2. i - 1 \in 1 .. Len(queue) - 1 /\ Len(Tail(queue)) = Len(queue) - 1
      BY <1>1, <2>1
    <3>3. Tail(queue)[i - 1] = queue[i] /\ i - 1 \in DOMAIN Tail(queue) /\ Tail(queue) # <<>>
      BY <1>1, <2>1, <3>2
    <3>4. QED
      BY <3>1, <3>3
  <2>3. CASE qty # queue[1].qty
    <3> DEFINE o == Reduced(queue[1], qty)
    <3>1. q = [queue EXCEPT ![1] = o]
      BY <2>3 DEF Filled
    <3> HIDE DEF o
    <3>2. q[i] = queue[i] /\ i \in DOMAIN q
      BY <1>1, <1>6, <3>1
    <3>3. QED
      BY <3>2
  <2>4. QED
    BY <2>2, <2>3
<1> HIDE DEF q
<1>7. /\ \A t \in Side : t # s => c[t] = b[t]
      /\ q = <<>> => DOMAIN c[s] = DOMAIN b[s] \ {p}
      /\ q # <<>> => DOMAIN c[s] = DOMAIN b[s] \cup {p}
      /\ q # <<>> => c[s][p] = q
      /\ \A x \in DOMAIN c[s] : x # p => c[s][x] = b[s][x]
  BY <1>1, <1>5, SetQueueFacts
<1> HIDE DEF c
<1>8. ASSUME NEW x \in DOMAIN b[s], NEW i \in DOMAIN b[s][x], x # p \/ i # 1
      PROVE  x \in DOMAIN c[s] /\ \E j \in DOMAIN c[s][x] : c[s][x][j] = b[s][x][i]
  <2>1. CASE x = p
    BY <1>4, <1>6, <1>7, <1>8, <2>1
  <2>2. CASE x # p
    BY <1>7, <1>8, <2>2
  <2>3. QED
    BY <2>1, <2>2
<1>9. QED
  BY <1>2, <1>7, <1>8

(* An order that comes to rest is on the book. *)
LEMMA RestedThere ==
  ASSUME NEW Prices, NEW b, IsBook(b, Prices), NEW s \in Side, NEW p \in Prices, NEW o \in Order
  PROVE  LET c == RestOrder(b, s, p, o)
         IN  p \in DOMAIN c[s] /\ \E i \in DOMAIN c[s][p] : c[s][p][i] = o
<1> DEFINE queue == QueueAt(b, s, p)
           q == Append(queue, o)
           c == SetQueue(b, s, p, q)
<1>1. queue \in Seq(Order)
  BY QueueAtType
<1> HIDE DEF queue
<1>2. q \in Seq(Order) /\ q # <<>> /\ Len(queue) + 1 \in DOMAIN q /\ q[Len(queue) + 1] = o
  BY <1>1
<1>3. RestOrder(b, s, p, o) = c
  BY DEF RestOrder, queue
<1> HIDE DEF q
<1>4. DOMAIN c[s] = DOMAIN b[s] \cup {p} /\ c[s][p] = q
  BY <1>2, SetQueueFacts
<1> HIDE DEF c
<1>5. QED
  BY <1>2, <1>3, <1>4

\* A cancel takes away the one order with the id, if it rests at the price.
LEMMA CancelSound ==
  ASSUME NEW Prices, NEW b, Sound(b, Prices), NEW s \in Side, NEW p \in Prices, NEW id
  PROVE  LET c == CancelOrder(b, s, p, id)
         IN  /\ Sound(c, Prices) /\ Thinned(b, c)
             /\ \A t \in Side : t # s => c[t] = b[t]
             /\ p \in DOMAIN c[s] => \A i \in DOMAIN c[s][p] : c[s][p][i].id # id
<1>1. CASE ~ HasOrder(b, s, p, id)
  <2>1. CancelOrder(b, s, p, id) = b
    BY <1>1 DEF CancelOrder
  <2>2. Thinned(b, b)
    BY DEF Thinned, Same
  <2>3. p \in DOMAIN b[s] => \A i \in DOMAIN b[s][p] : b[s][p][i].id # id
    BY <1>1 DEF HasOrder, QueueAt, Places
  <2>4. QED
    BY <2>1, <2>2, <2>3
<1>2. CASE HasOrder(b, s, p, id)
  <2> DEFINE queue == b[s][p]
             i == Position(queue, id)
             q == RemoveAt(queue, i)
             c == SetQueue(b, s, p, q)
  <2>1. p \in DOMAIN b[s] /\ Places(queue, id) # {}
    BY <1>2 DEF HasOrder, QueueAt, Places
  <2>2. queue \in Seq(Order) /\ AllLive(queue)
    BY <2>1 DEF Sound, IsBook, LiveBook
  <2>3. CancelOrder(b, s, p, id) = c
    BY <1>2 DEF CancelOrder
  <2>4. \A m, n \in DOMAIN queue : queue[m].id = queue[n].id => m = n
    BY <2>1 DEF Sound, OneOrderPerId
  <2> HIDE DEF queue
  <2>5. i \in DOMAIN queue /\ queue[i].id = id
    <3>1. i \in Places(queue, id)
      BY <2>1, <2>2, PositionIsPlace
    <3>2. QED
      BY <3>1 DEF Places
  <2> HIDE DEF i
  <2>6. /\ q \in Seq(Order) /\ Len(q) = Len(queue) - 1
        /\ \A j \in DOMAIN q : q[j] = queue[IF j < i THEN j ELSE j + 1]
    BY <2>2, <2>5, RemoveAtFacts
  <2>7. AllLive(q)
    BY <2>2, <2>5, <2>6 DEF AllLive
  <2>8. PICK f : Thins(f, q, queue)
    BY <2>2, <2>5, RemovalThins
  <2>9. \A j \in DOMAIN q : q[j].id # id
    <3> SUFFICES ASSUME NEW j \in DOMAIN q PROVE q[j].id # id
      OBVIOUS
    <3> DEFINE k == IF j < i THEN j ELSE j + 1
    <3>1. k \in DOMAIN queue /\ k # i
      BY <2>2, <2>5, <2>6
    <3>2. q[j] = queue[k]
      BY <2>6
    <3> HIDE DEF k
    <3>3. QED
      BY <2>4, <2>5, <3>1, <3>2
  <2> HIDE DEF q
  <2>10. Thins(f, q, b[s][p])
    BY <2>8 DEF queue
  <2>11. Sound(c, Prices) /\ Thinned(b, c)
    BY <2>1, <2>6, <2>7, <2>10, ThinnedBook
  <2>12. /\ \A t \in Side : t # s => c[t] = b[t]
         /\ p \in DOMAIN c[s] => c[s][p] = q
    <3>1. /\ \A t \in Side : t # s => c[t] = b[t]
          /\ q = <<>> => DOMAIN c[s] = DOMAIN b[s] \ {p}
          /\ q # <<>> => c[s][p] = q
      BY <2>6, SetQueueFacts DEF Sound
    <3> HIDE DEF c
    <3>2. QED
      BY <3>1
  <2> HIDE DEF c
  <2>13. QED
    BY <2>3, <2>9, <2>11, <2>12
<1>3. QED
  BY <1>1, <1>2

\* An order with an id above all others rests last, and alone under its id.
LEMMA RestSound ==
  ASSUME NEW Prices, NEW b, Sound(b, Prices), NEW s \in Side, NEW p \in Prices,
         NEW o \in Order, o.qty > 0, NEW m \in Nat, o.id > m, IdsUpTo(b, m)
  PROVE  LET c == RestOrder(b, s, p, o)
         IN  Sound(c, Prices) /\ Extended(b, c, s, p, o) /\ IdsUpTo(c, o.id)
<1> DEFINE queue == QueueAt(b, s, p)
           q == Append(queue, o)
           c == SetQueue(b, s, p, q)
           new(t, x, i) == t = s /\ x = p /\ i = Len(queue) + 1
<1> USE DEF Sound
<1>1. RestOrder(b, s, p, o) = c
  BY DEF RestOrder
<1>2. queue \in Seq(Order) /\ o.id \in Nat
  BY QueueAtType DEF Order
<1>3. /\ DOMAIN queue = 1 .. Len(queue) /\ Len(queue) \in Nat
      /\ p \in DOMAIN b[s] => queue = b[s][p]
      /\ p \notin DOMAIN b[s] => Len(queue) = 0
  BY <1>2 DEF QueueAt
<1> HIDE DEF queue
<1>4. /\ q \in Seq(Order) /\ q # <<>> /\ DOMAIN q = 1 .. Len(queue) + 1
      /\ q[Len(queue) + 1] = o /\ \A i \in 1 .. Len(queue) : q[i] = queue[i]
  BY <1>2, <1>3
<1> HIDE DEF q
<1>5. /\ \A t \in Side : t # s => c[t] = b[t]
      /\ DOMAIN c[s] = DOMAIN b[s] \cup {p}
      /\ c[s][p] = q
      /\ \A x \in DOMAIN c[s] : x # p => c[s][x] = b[s][x]
  BY <1>4, SetQueueFacts
<1> HIDE DEF c
<1>6. ASSUME NEW t \in Side, NEW x \in DOMAIN c[t], NEW i \in DOMAIN c[t][x]
      PROVE  /\ i \in Int
             /\ new(t, x, i) => c[t][x][i] = o
             /\ ~ new(t, x, i) =>
                  /\ x \in DOMAIN b[t] /\ i \in DOMAIN b[t][x]
                  /\ c[t][x][i] = b[t][x][i] /\ b[t][x][i].id \in 1 .. m
  <2>1. CASE t = s /\ x = p
    <3>1. c[t][x] = q /\ i \in 1 .. Len(queue) + 1
      BY <1>4, <1>5, <2>1
    <3>2. CASE i = Len(queue) + 1
      BY <1>3, <1>4, <2>1, <3>1, <3>2
    <3>3. CASE i # Len(queue) + 1
      <4>1. i \in 1 .. Len(queue)
        BY <1>3, <3>1, <3>3
      <4>2. p \in DOMAIN b[s] /\ queue = b[s][p]
        BY <1>3, <4>1
      <4>3. c[t][x][i] = b[t][x][i] /\ i \in DOMAIN b[t][x] /\ x \in DOMAIN b[t]
        BY <1>3, <1>4, <2>1, <3>1, <4>1, <4>2
      <4>4. b[t][x][i] \in Order
        BY <1>2, <2>1, <4>2, <4>3
      <4>5. QED
        BY <3>3, <4>1, <4>3, <4>4 DEF IdsUpTo
    <3>4. QED
      BY <3>2, <3>3
  <2>2. CASE ~ (t = s /\ x = p)
    <3>1. x \in DOMAIN b[t] /\ c[t][x] = b[t][x]
      BY <1>5, <2>2
    <3>2. b[t][x] \in Seq(Order)
      BY <3>1 DEF IsBook
    <3>3. b[t][x][i] \in Order /\ i \in Int
      BY <3>1, <3>2
    <3>4. QED
      BY <2>2, <3>1, <3>3 DEF IdsUpTo
  <2>3. QED
    BY <2>1, <2>2
<1>7. ASSUME NEW t \in Side, NEW x \in DOMAIN c[t], NEW i \in DOMAIN c[t][x]
      PROVE  t = s /\ x = p => i \in 1 .. Len(queue) + 1
  BY <1>4, <1>5
<1>8. InOrder(c)
  <2> SUFFICES ASSUME NEW t \in Side, NEW x \in DOMAIN c[t],
                      NEW i \in DOMAIN c[t][x], NEW j \in DOMAIN c[t][x], i < j
               PROVE  c[t][x][i].id < c[t][x][j].id
    BY DEF InOrder
  <2>1. ~ new(t, x, i)
    BY <1>3, <1>6, <1>7
  <2>2. CASE new(t, x, j)
    BY <1>2, <1>6, <2>1, <2>2
  <2>3. CASE ~ new(t, x, j)
    BY <1>6, <2>1, <2>3 DEF InOrder
  <2>4. QED
    BY <2>2, <2>3
<1>9. OneOrderPerId(c)
  <2> SUFFICES ASSUME NEW t \in Side, NEW u \in Side, NEW x \in DOMAIN c[t], NEW y \in DOMAIN c[u],
                      NEW i \in DOMAIN c[t][x], NEW j \in DOMAIN c[u][y],
                      c[t][x][i].id = c[u][y][j].id
               PROVE  t = u /\ x = y /\ i = j
    BY DEF OneOrderPerId
  <2>1. CASE new(t, x, i)
    BY <1>2, <1>6, <2>1
  <2>2. CASE ~ new(t, x, i) /\ ~ new(u, y, j)
    BY <1>6, <2>2 DEF OneOrderPerId
  <2>3. CASE ~ new(t, x, i) /\ new(u, y, j)
    BY <1>2, <1>6, <2>3
  <2>4. QED
    BY <2>1, <2>2, <2>3
<1>10. IdsUpTo(c, o.id)
  BY <1>2, <1>6 DEF IdsUpTo
<1>11. Extended(b, c, s, p, o)
  BY <1>5, <1>6 DEF Extended
<1>12. IsBook(c, Prices) /\ LiveBook(c)
  BY <1>1, RestOrderLive
<1>13. Finite(c)
  <2>1. IsFiniteSet(DOMAIN b[s] \cup {p})
    BY FS_AddElement DEF Finite
  <2>2. QED
    BY <1>5, <2>1 DEF Finite
<1>14. QED
  BY <1>1, <1>8, <1>9, <1>10, <1>11, <1>12, <1>13

\* A reported fill of the order at the front is that order's fill: what a
\* reader of the feed does on a Trade is what the matching engine did.
LEMMA FrontTrade ==
  ASSUME NEW Prices, NEW b, Sound(b, Prices), NEW s \in Side, NEW p \in DOMAIN b[s],
         NEW qty \in Nat, qty <= b[s][p][1].qty
  PROVE  ApplyTrade(b, s, p, b[s][p][1].id, qty) = FillFront(b, s, p, qty)
<1> DEFINE queue == b[s][p]
           id == queue[1].id
           i == Position(queue, id)
<1>1. queue \in Seq(Order) /\ queue # <<>>
  BY DEF Sound, IsBook, LiveBook
<1>2. \A m, n \in DOMAIN queue : queue[m].id = queue[n].id => m = n
  BY DEF Sound, OneOrderPerId
<1> HIDE DEF queue
<1>3. 1 \in DOMAIN queue /\ queue[1] \in Order /\ queue[1].qty \in Nat
  <2>1. 1 \in DOMAIN queue /\ queue[1] \in Order
    BY <1>1
  <2>2. QED
    BY <2>1 DEF Order
<1>4. Places(queue, id) # {}
  BY <1>3 DEF Places
<1>5. i = 1
  <2>1. i \in Places(queue, id)
    BY <1>1, <1>4, PositionIsPlace
  <2>2. QED
    BY <1>2, <1>3, <2>1 DEF Places
<1>6. RemoveAt(queue, 1) = Tail(queue)
  <2> DEFINE q == RemoveAt(queue, 1)
  <2>1. q \in Seq(Order) /\ Len(q) = Len(queue) - 1 /\ \A j \in DOMAIN q : q[j] = queue[j + 1]
    <3>1. q \in Seq(Order) /\ Len(q) = Len(queue) - 1
          /\ \A j \in DOMAIN q : q[j] = queue[IF j < 1 THEN j ELSE j + 1]
      BY <1>1, <1>3, RemoveAtFacts
    <3> HIDE DEF q
    <3>2. QED
      BY <3>1
  <2>2. /\ Tail(queue) \in Seq(Order) /\ Len(Tail(queue)) = Len(queue) - 1
        /\ \A j \in 1 .. Len(queue) - 1 : Tail(queue)[j] = queue[j + 1]
    BY <1>1
  <2> HIDE DEF q
  <2>3. q = Tail(queue)
    BY <2>1, <2>2
  <2>4. QED
    BY <2>3 DEF q
<1>7. qty >= queue[1].qty <=> qty = queue[1].qty
  <2>1. qty <= queue[1].qty
    BY DEF queue
  <2>2. QED
    BY <1>3, <2>1
<1>8. HasOrder(b, s, p, id)
  BY <1>4 DEF HasOrder, QueueAt, queue
<1>9. ApplyTrade(b, s, p, id, qty) =
        SetQueue(b, s, p, IF qty >= queue[1].qty THEN RemoveAt(queue, 1)
                          ELSE [queue EXCEPT ![1] = Reduced(queue[1], qty)])
  BY <1>5, <1>8 DEF ApplyTrade, queue
<1>10. FillFront(b, s, p, qty) =
         SetQueue(b, s, p, IF qty = queue[1].qty THEN Tail(queue)
                           ELSE [queue EXCEPT ![1] = Reduced(queue[1], qty)])
  BY DEF FillFront, queue
<1>11. QED
  BY <1>6, <1>7, <1>9, <1>10 DEF queue

\* Every quantity on the book is one of Qtys.
QtysKnown(b, Qtys) ==
  \A s \in Side : \A p \in DOMAIN b[s] : \A i \in DOMAIN b[s][p] : b[s][p][i].qty \in Qtys

\* Thinning a book brings no quantity of its own: what is left of one is one.
LEMMA ThinnedQtys ==
  ASSUME NEW Prices, NEW Qtys, Qtys \subseteq Nat, \A q \in Qtys : 1 .. q \subseteq Qtys,
         NEW b, NEW c, Sound(c, Prices), Thinned(b, c), QtysKnown(b, Qtys)
  PROVE  QtysKnown(c, Qtys)
<1> SUFFICES ASSUME NEW s \in Side, NEW p \in DOMAIN c[s], NEW i \in DOMAIN c[s][p]
             PROVE  c[s][p][i].qty \in Qtys
  BY DEF QtysKnown
<1>1. PICK j \in DOMAIN b[s][p] : Same(c[s][p][i], b[s][p][j])
  BY DEF Thinned
<1>2. b[s][p][j].qty \in Qtys
  BY <1>1 DEF QtysKnown, Thinned
<1>3. c[s][p][i] \in Order /\ c[s][p][i].qty > 0
  <2>1. c[s][p] \in Seq(Order)
    BY DEF Sound, IsBook
  <2>2. QED
    BY <2>1 DEF Sound, LiveBook, AllLive
<1>4. c[s][p][i].qty \in Nat
  BY <1>3 DEF Order
<1>5. CASE c[s][p][i].qty = b[s][p][j].qty
  BY <1>2, <1>5
<1>6. CASE c[s][p][i].qty < b[s][p][j].qty
  <2>1. c[s][p][i].qty \in 1 .. b[s][p][j].qty
    <3>1. b[s][p][j].qty \in Nat
      BY <1>2
    <3>2. \A m, n \in Nat : m > 0 /\ m < n => m \in 1 .. n
      OBVIOUS
    <3>3. QED
      BY <1>3, <1>4, <1>6, <3>1, <3>2
  <2>2. QED
    BY <1>2, <2>1
<1>7. QED
  BY <1>1, <1>5, <1>6 DEF Same

-----------------------------------------------------------------------------
(* Resting one order after another *)

Books(P) == [Side -> UNION {[D -> Seq(Order)] : D \in SUBSET P}]

LEMMA BooksAreBooks == ASSUME NEW P, NEW b PROVE b \in Books(P) <=> IsBook(b, P)
<1>1. ASSUME b \in Books(P) PROVE IsBook(b, P)
  <2>1. b = [s \in Side |-> b[s]]
    BY <1>1 DEF Books
  <2>2. ASSUME NEW s \in Side
        PROVE  DOMAIN b[s] \subseteq P /\ b[s] \in [DOMAIN b[s] -> Seq(Order)]
    <3>1. PICK D \in SUBSET P : b[s] \in [D -> Seq(Order)]
      BY <1>1 DEF Books
    <3>2. QED
      BY <3>1
  <2>3. QED
    BY <2>1, <2>2 DEF IsBook
<1>2. ASSUME IsBook(b, P) PROVE b \in Books(P)
  <2>1. ASSUME NEW s \in Side
        PROVE  b[s] \in UNION {[D -> Seq(Order)] : D \in SUBSET P}
    <3>1. DOMAIN b[s] \in SUBSET P /\ b[s] \in [DOMAIN b[s] -> Seq(Order)]
      BY <1>2 DEF IsBook
    <3>2. QED
      BY <3>1
  <2>2. b = [s \in Side |-> b[s]]
    BY <1>2 DEF IsBook
  <2>3. QED
    BY <2>1, <2>2 DEF Books
<1>3. QED
  BY <1>1, <1>2

Row(P) == [price : P, order : Order]

\* The books on the way from b as the rows are rested on side s, one by one.
IsResting(t, b, s, rows) ==
  /\ t[0] = b
  /\ \A k \in 1 .. Len(rows) : t[k] = RestOrder(t[k - 1], s, rows[k].price, rows[k].order)

LEMMA RestOrderBook ==
  ASSUME NEW P, NEW b, IsBook(b, P), NEW s \in Side, NEW p \in P, NEW o \in Order
  PROVE  IsBook(RestOrder(b, s, p, o), P)
<1> DEFINE queue == QueueAt(b, s, p)
           q == Append(queue, o)
<1>1. queue \in Seq(Order)
  BY QueueAtType
<1> HIDE DEF queue
<1>2. q \in Seq(Order)
  BY <1>1
<1> HIDE DEF q
<1>3. IsBook(SetQueue(b, s, p, q), P)
  BY <1>2, SetQueueFacts
<1>4. QED
  BY <1>3 DEF RestOrder, q, queue

LEMMA RestRowsFacts ==
  ASSUME NEW P, NEW b, IsBook(b, P), NEW s \in Side, NEW rows \in Seq(Row(P))
  PROVE  \E t : /\ IsResting(t, b, s, rows)
                /\ \A k \in 0 .. Len(rows) : IsBook(t[k], P)
                /\ RestRows(b, s, rows) = t[Len(rows)]
<1> DEFINE V == Books(P)
           E == Row(P)
           F == [x \in V \X E |-> RestOrder(x[1], s, x[2].price, x[2].order)]
           n == Len(rows)
           Next(c, S) == RestOrder(c[S \ {Max(S)}], s, rows[Max(S)].price, rows[Max(S)].order)
           c == CHOOSE f : f = [S \in SUBSET (1 .. n) |-> IF S = {} THEN b ELSE Next(f, S)]
<1>1. n \in Nat /\ DOMAIN rows = 1 .. n /\ \A k \in 1 .. n : rows[k] \in E
  OBVIOUS
<1>2. \A row \in E : row.price \in P /\ row.order \in Order
  BY DEF Row
<1>3. b \in V /\ rows \in Seq(E)
  BY BooksAreBooks
<1> HIDE DEF V, E
<1>4. ASSUME NEW v \in V, NEW e \in E PROVE RestOrder(v, s, e.price, e.order) \in V
  <2>1. IsBook(v, P) /\ e.price \in P /\ e.order \in Order
    BY <1>2, BooksAreBooks DEF V
  <2>2. IsBook(RestOrder(v, s, e.price, e.order), P)
    BY <2>1, RestOrderBook
  <2>3. QED
    BY <2>2, BooksAreBooks DEF V
<1>5. \A v \in V, e \in E : F[<<v, e>>] = RestOrder(v, s, e.price, e.order)
  OBVIOUS
<1>6. IsStep(F, V, E)
  BY <1>4 DEF IsStep
<1> HIDE DEF F
<1>7. PICK f : IsFold(f, Len(rows), F, V, b, rows)
  BY <1>3, <1>6, FoldExists
<1> HIDE DEF n
<1>8. f = [S \in SUBSET (1 .. n) |-> IF S = {} THEN b ELSE Next(f, S)]
  <2>0. f \in [SUBSET (1 .. n) -> V] /\ f[{}] = b
    BY <1>7 DEF IsFold, n
  <2>1. ASSUME NEW S \in SUBSET (1 .. n), S # {}
        PROVE  f[S] = Next(f, S)
    <3> DEFINE m == Max(S)
    <3>1. f[S] = F[<<f[S \ {m}], rows[m]>>]
      BY <1>7, <2>1 DEF IsFold, n
    <3>2. m \in 1 .. n
      BY <1>1, <2>1, MaxIsMember
    <3> HIDE DEF m
    <3>3. f[S \ {m}] \in V /\ rows[m] \in E
      BY <1>1, <2>0, <3>2
    <3>4. QED
      BY <1>5, <3>1, <3>3 DEF m
  <2> HIDE DEF Next
  <2>2. QED
    BY <2>0, <2>1
<1>9. c = [S \in SUBSET (1 .. n) |-> IF S = {} THEN b ELSE Next(c, S)]
  <2> HIDE DEF Next
  <2>1. QED
    BY <1>8
<1>10. RestRows(b, s, rows) = c[1 .. n]
  BY <1>1 DEF RestRows, FoldLeft, MapThenFoldSet, n
<1> HIDE DEF c
<1> DEFINE t == [k \in 0 .. n |-> c[1 .. k]]
<1>11. t[0] = b
  <2>1. 1 .. 0 = {} /\ 0 \in 0 .. n
    BY <1>1
  <2>2. QED
    BY <1>9, <2>1
<1>12. ASSUME NEW k \in 1 .. n
       PROVE  t[k] = RestOrder(t[k - 1], s, rows[k].price, rows[k].order)
  <2> DEFINE S == 1 .. k
  <2>1. k \in S /\ S \in SUBSET (1 .. n) /\ S \ {k} = 1 .. k - 1 /\ k - 1 \in 0 .. n /\ k \in 0 .. n
    BY <1>1
  <2>2. Max(S) = k
    BY <1>1, MaxOfFirst
  <2>3. t[k] = c[S] /\ t[k - 1] = c[S \ {k}]
    BY <2>1
  <2> HIDE DEF S
  <2>4. c[S] = Next(c, S)
    BY <1>9, <2>1
  <2>5. QED
    BY <2>2, <2>3, <2>4
<1> HIDE DEF t
<1>13. ASSUME NEW k \in 0 .. n PROVE t[k] \in V
  <2> DEFINE good == {j \in 0 .. n : t[j] \in V}
  <2>1. 0 \in good
    BY <1>1, <1>3, <1>11
  <2>2. ASSUME NEW j \in 1 .. n, j - 1 \in good PROVE j \in good
    BY <1>1, <1>4, <1>12, <2>2
  <2> HIDE DEF good
  <2>3. \A j \in 0 .. n : j \in good
    BY <1>1, <2>1, <2>2, Induct
  <2>4. QED
    BY <2>3 DEF good
<1>14. t[n] = c[1 .. n]
  BY <1>1 DEF t
<1>15. IsResting(t, b, s, rows)
  BY <1>11, <1>12 DEF IsResting, n
<1>16. \A k \in 0 .. n : IsBook(t[k], P)
  BY <1>13, BooksAreBooks DEF V
<1>17. QED
  BY <1>10, <1>14, <1>15, <1>16 DEF n

(* ... and any books on such a way are those. *)
LEMMA RestRowsEnd ==
  ASSUME NEW P, NEW b, IsBook(b, P), NEW s \in Side, NEW rows \in Seq(Row(P)),
         NEW u, IsResting(u, b, s, rows)
  PROVE  RestRows(b, s, rows) = u[Len(rows)]
<1>1. PICK t : IsResting(t, b, s, rows) /\ RestRows(b, s, rows) = t[Len(rows)]
  BY RestRowsFacts
<1> DEFINE n == Len(rows)
           same == {k \in 0 .. n : t[k] = u[k]}
<1>2. n \in Nat
  OBVIOUS
<1> HIDE DEF n
<1>3. 0 \in same
  BY <1>1, <1>2 DEF IsResting
<1>4. ASSUME NEW k \in 1 .. n, k - 1 \in same PROVE k \in same
  <2>1. /\ t[k] = RestOrder(t[k - 1], s, rows[k].price, rows[k].order)
        /\ u[k] = RestOrder(u[k - 1], s, rows[k].price, rows[k].order)
    BY <1>1 DEF IsResting, n
  <2>2. QED
    BY <1>2, <1>4, <2>1
<1> HIDE DEF same
<1>5. \A k \in 0 .. n : k \in same
  BY <1>2, <1>3, <1>4, Induct
<1>6. n \in same
  BY <1>2, <1>5
<1>7. QED
  BY <1>1, <1>6 DEF same, n

(* Rows are rested part by part. *)
LEMMA RestRowsJoined ==
  ASSUME NEW P, NEW b, IsBook(b, P), NEW s \in Side,
         NEW rows \in Seq(Row(P)), NEW more \in Seq(Row(P))
  PROVE  /\ IsBook(RestRows(b, s, rows), P)
         /\ RestRows(b, s, rows \o more) = RestRows(RestRows(b, s, rows), s, more)
<1> DEFINE m == Len(rows)
           n == Len(more)
           all == rows \o more
           mid == RestRows(b, s, rows)
<1>1. PICK t : /\ IsResting(t, b, s, rows) /\ mid = t[Len(rows)]
               /\ \A k \in 0 .. Len(rows) : IsBook(t[k], P)
  BY RestRowsFacts
<1>2. /\ m \in Nat /\ n \in Nat /\ all \in Seq(Row(P)) /\ Len(all) = m + n
      /\ \A k \in 1 .. m : all[k] = rows[k]
      /\ \A k \in 1 .. n : all[m + k] = more[k]
  OBVIOUS
<1>3. IsBook(mid, P)
  BY <1>1, <1>2
<1> HIDE DEF mid
<1>4. PICK u : IsResting(u, mid, s, more) /\ RestRows(mid, s, more) = u[Len(more)]
  BY <1>3, RestRowsFacts
<1> DEFINE v == [k \in 0 .. m + n |-> IF k <= m THEN t[k] ELSE u[k - m]]
<1> HIDE DEF all, m, n
<1>5. t[0] = b /\ t[m] = mid /\ u[0] = mid
  BY <1>1, <1>4 DEF IsResting, m
<1>6. v[0] = b /\ v[m + n] = u[n]
  BY <1>2, <1>5
<1>7. ASSUME NEW k \in 1 .. m + n
      PROVE  v[k] = RestOrder(v[k - 1], s, all[k].price, all[k].order)
  <2>0. k - 1 \in 0 .. m + n /\ k \in 0 .. m + n
    BY <1>2
  <2>1. CASE k <= m
    <3>1. k \in 1 .. m /\ v[k] = t[k] /\ v[k - 1] = t[k - 1] /\ all[k] = rows[k]
      BY <1>2, <2>0, <2>1
    <3>2. t[k] = RestOrder(t[k - 1], s, rows[k].price, rows[k].order)
      BY <1>1, <3>1 DEF IsResting, m
    <3>3. QED
      BY <3>1, <3>2
  <2>2. CASE k > m
    <3> DEFINE j == k - m
    <3>1. j \in 1 .. n /\ k = m + j
      BY <1>2, <2>2
    <3>2. v[k] = u[j] /\ all[k] = more[j]
      BY <1>2, <2>0, <2>2, <3>1
    <3>3. v[k - 1] = u[j - 1]
      <4>1. CASE k = m + 1
        <5>1. k - 1 = m /\ j - 1 = 0 /\ k - 1 <= m
          BY <1>2, <4>1
        <5>2. v[k - 1] = t[k - 1]
          BY <2>0, <5>1
        <5>3. QED
          BY <1>5, <5>1, <5>2
      <4>2. CASE k # m + 1
        <5>1. ~ (k - 1 <= m) /\ k - 1 - m = j - 1
          BY <1>2, <2>2, <4>2
        <5>2. v[k - 1] = u[k - 1 - m]
          BY <2>0, <5>1
        <5>3. QED
          BY <5>1, <5>2
      <4>3. QED
        BY <4>1, <4>2
    <3> HIDE DEF j
    <3>4. u[j] = RestOrder(u[j - 1], s, more[j].price, more[j].order)
      BY <1>4, <3>1 DEF IsResting, n
    <3> HIDE DEF v
    <3>5. QED
      BY <3>2, <3>3, <3>4
  <2>3. QED
    BY <1>2, <2>1, <2>2
<1> HIDE DEF v
<1>8. IsResting(v, b, s, all)
  BY <1>2, <1>6, <1>7 DEF IsResting
<1>9. RestRows(b, s, all) = v[Len(all)]
  <2>1. all \in Seq(Row(P))
    BY <1>2
  <2>2. QED
    BY <1>8, <2>1, RestRowsEnd
<1>10. QED
  BY <1>2, <1>3, <1>4, <1>6, <1>9 DEF all, mid, n

-----------------------------------------------------------------------------
(* A book is rebuilt from what was exported of it *)

LEMMA SameBook ==
  ASSUME NEW P, NEW b, NEW c, IsBook(b, P), IsBook(c, P),
         \A s \in Side : DOMAIN b[s] = DOMAIN c[s] /\ \A p \in DOMAIN b[s] : b[s][p] = c[s][p]
  PROVE  b = c
<1>1. ASSUME NEW s \in Side PROVE b[s] = c[s]
  BY DEF IsBook
<1>2. b = [s \in Side |-> b[s]] /\ c = [s \in Side |-> c[s]]
  BY DEF IsBook
<1>3. QED
  BY <1>1, <1>2

(* A level can be stored again, and an empty one where there is none. *)
LEMMA SetQueueAgain ==
  ASSUME NEW P, NEW b, IsBook(b, P), NEW s \in Side, NEW p \in P,
         NEW q \in Seq(Order), NEW r \in Seq(Order)
  PROVE  /\ SetQueue(SetQueue(b, s, p, q), s, p, r) = SetQueue(b, s, p, r)
         /\ QueueAt(SetQueue(b, s, p, q), s, p) = q
<1> DEFINE c == SetQueue(b, s, p, q)
           d == SetQueue(c, s, p, r)
           e == SetQueue(b, s, p, r)
<1>1. /\ IsBook(c, P)
      /\ \A t \in Side : t # s => c[t] = b[t]
      /\ q = <<>> => DOMAIN c[s] = DOMAIN b[s] \ {p}
      /\ q # <<>> => DOMAIN c[s] = DOMAIN b[s] \cup {p}
      /\ q # <<>> => c[s][p] = q
      /\ \A x \in DOMAIN c[s] : x # p => c[s][x] = b[s][x]
  BY SetQueueFacts
<1>2. /\ IsBook(e, P)
      /\ \A t \in Side : t # s => e[t] = b[t]
      /\ r = <<>> => DOMAIN e[s] = DOMAIN b[s] \ {p}
      /\ r # <<>> => DOMAIN e[s] = DOMAIN b[s] \cup {p}
      /\ r # <<>> => e[s][p] = r
      /\ \A x \in DOMAIN e[s] : x # p => e[s][x] = b[s][x]
  BY SetQueueFacts
<1> HIDE DEF c, e
<1>3. /\ IsBook(d, P)
      /\ \A t \in Side : t # s => d[t] = c[t]
      /\ r = <<>> => DOMAIN d[s] = DOMAIN c[s] \ {p}
      /\ r # <<>> => DOMAIN d[s] = DOMAIN c[s] \cup {p}
      /\ r # <<>> => d[s][p] = r
      /\ \A x \in DOMAIN d[s] : x # p => d[s][x] = c[s][x]
  BY <1>1, SetQueueFacts
<1> HIDE DEF d
<1>4. DOMAIN d[s] = DOMAIN e[s]
  BY <1>1, <1>2, <1>3
<1>5. \A x \in DOMAIN d[s] : d[s][x] = e[s][x]
  BY <1>1, <1>2, <1>3
<1>6. \A t \in Side : DOMAIN d[t] = DOMAIN e[t] /\ \A x \in DOMAIN d[t] : d[t][x] = e[t][x]
  <2>1. \A t \in Side : t # s => d[t] = e[t]
    BY <1>1, <1>2, <1>3
  <2>2. QED
    BY <1>4, <1>5, <2>1
<1>7. d = e
  BY <1>2, <1>3, <1>6, SameBook
<1>8. QueueAt(c, s, p) = q
  BY <1>1 DEF QueueAt
<1>9. QED
  BY <1>7, <1>8 DEF c, d, e

LEMMA NoLevelStored ==
  ASSUME NEW P, NEW b, IsBook(b, P), NEW s \in Side, NEW p \in P, p \notin DOMAIN b[s]
  PROVE  SetQueue(b, s, p, <<>>) = b
<1> DEFINE q == <<>>
           c == SetQueue(b, s, p, q)
<1>1. q \in Seq(Order) /\ q = <<>>
  OBVIOUS
<1> HIDE DEF q
<1>2. /\ IsBook(c, P)
      /\ \A t \in Side : t # s => c[t] = b[t]
      /\ q = <<>> => DOMAIN c[s] = DOMAIN b[s] \ {p}
      /\ \A x \in DOMAIN c[s] : x # p => c[s][x] = b[s][x]
  <2>1. q \in Seq(Order)
    BY <1>1
  <2>2. QED
    BY <2>1, SetQueueFacts
<1> HIDE DEF c
<1>3. \A t \in Side : DOMAIN c[t] = DOMAIN b[t] /\ \A x \in DOMAIN c[t] : c[t][x] = b[t][x]
  BY <1>1, <1>2
<1>4. c = b
  BY <1>2, <1>3, SameBook
<1>5. QED
  BY <1>4 DEF c, q

Rows(p, queue) == [i \in DOMAIN queue |-> [price |-> p, order |-> queue[i]]]

LEMMA RowsType ==
  ASSUME NEW P, NEW p \in P, NEW queue \in Seq(Order)
  PROVE  /\ Rows(p, queue) \in Seq(Row(P)) /\ Len(Rows(p, queue)) = Len(queue)
         /\ \A i \in 1 .. Len(queue) : Rows(p, queue)[i].price = p /\ Rows(p, queue)[i].order = queue[i]
<1> DEFINE n == Len(queue)
           f == [i \in 1 .. n |-> [price |-> p, order |-> queue[i]]]
<1>1. n \in Nat /\ DOMAIN queue = 1 .. n /\ \A i \in 1 .. n : queue[i] \in Order
  OBVIOUS
<1>2. Rows(p, queue) = f
  BY <1>1 DEF Rows
<1> HIDE DEF n
<1>3. \A i \in 1 .. n : f[i] \in Row(P) /\ f[i].price = p /\ f[i].order = queue[i]
  BY <1>1 DEF Row
<1>4. DOMAIN f = 1 .. n
  OBVIOUS
<1>5. f = [i \in 1 .. n |-> f[i]]
  OBVIOUS
<1> HIDE DEF f
<1>6. f \in [1 .. n -> Row(P)]
  BY <1>3, <1>5
<1>7. f \in Seq(Row(P)) /\ Len(f) = n
  BY <1>1, <1>6
<1>8. QED
  BY <1>2, <1>3, <1>7 DEF n

(* The rows of a queue, rested where there is no level yet, make the level. *)
LEMMA LevelRested ==
  ASSUME NEW P, NEW b, IsBook(b, P), NEW s \in Side, NEW p \in P, p \notin DOMAIN b[s],
         NEW queue \in Seq(Order)
  PROVE  RestRows(b, s, Rows(p, queue)) = SetQueue(b, s, p, queue)
<1> DEFINE n == Len(queue)
           rows == Rows(p, queue)
           First(k) == SubSeq(queue, 1, k)
           u == [k \in 0 .. n |-> SetQueue(b, s, p, First(k))]
<1>1. n \in Nat /\ First(0) = <<>> /\ First(n) = queue
  OBVIOUS
<1>2. /\ rows \in Seq(Row(P)) /\ Len(rows) = n
      /\ \A i \in 1 .. n : rows[i].price = p /\ rows[i].order = queue[i]
  BY RowsType
<1>3. ASSUME NEW k \in 1 .. n
      PROVE  /\ First(k - 1) \in Seq(Order) /\ First(k) \in Seq(Order)
             /\ First(k) = Append(First(k - 1), queue[k])
  OBVIOUS
<1> HIDE DEF rows, n, First
<1>4. u[0] = b
  <2>1. u[0] = SetQueue(b, s, p, First(0))
    BY <1>1
  <2>2. QED
    BY <1>1, <2>1, NoLevelStored
<1>5. u[n] = SetQueue(b, s, p, queue)
  BY <1>1
<1>6. ASSUME NEW k \in 1 .. n
      PROVE  u[k] = RestOrder(u[k - 1], s, rows[k].price, rows[k].order)
  <2> DEFINE q == First(k - 1)
             r == First(k)
             c == SetQueue(b, s, p, q)
  <2>1. k - 1 \in 0 .. n /\ k \in 0 .. n
    BY <1>1
  <2>2. u[k - 1] = c /\ u[k] = SetQueue(b, s, p, r)
    BY <2>1
  <2>3. q \in Seq(Order) /\ r \in Seq(Order) /\ r = Append(q, queue[k])
    BY <1>3
  <2> HIDE DEF q, r, u
  <2>4. QueueAt(c, s, p) = q /\ SetQueue(c, s, p, r) = SetQueue(b, s, p, r)
    <3>1. q \in Seq(Order)
      BY <2>3
    <3>2. r \in Seq(Order)
      BY <2>3
    <3>3. QED
      BY <3>1, <3>2, SetQueueAgain
  <2> HIDE DEF c
  <2>5. RestOrder(c, s, p, queue[k]) = SetQueue(c, s, p, r)
    BY <2>3, <2>4 DEF RestOrder
  <2>6. QED
    BY <1>2, <2>2, <2>4, <2>5
<1> HIDE DEF u
<1>7. IsResting(u, b, s, rows)
  BY <1>2, <1>4, <1>6 DEF IsResting
<1>8. RestRows(b, s, rows) = u[Len(rows)]
  BY <1>2, <1>7, RestRowsEnd
<1>9. QED
  BY <1>2, <1>5, <1>8 DEF rows

\* The rows of the n levels of a side one after another, in the order of q.
IsExport(t, n, q, b, s, P) ==
  /\ n \in Nat
  /\ q \in [1 .. n -> DOMAIN b[s]]
  /\ \A i, j \in 1 .. n : i < j => q[i] # q[j]
  /\ \A p \in DOMAIN b[s] : \E i \in 1 .. n : q[i] = p
  /\ t \in [0 .. n -> Seq(Row(P))] /\ t[0] = <<>>
  /\ \A k \in 1 .. n : t[k] = t[k - 1] \o Rows(q[k], b[s][q[k]])
  /\ ExportSide(b, s) = t[n]

(* An export is made level by level. *)
LEMMA ExportFacts ==
  ASSUME NEW P \in SUBSET Int, NEW b, IsBook(b, P), NEW s \in Side, IsFiniteSet(DOMAIN b[s])
  PROVE  \E t, n, q : IsExport(t, n, q, b, s, P)
<1> DEFINE S == DOMAIN b[s]
           n == Cardinality(S)
           q == Ascending(S)
           E == Row(P)
           seqs == [i \in 1 .. n |-> Rows(q[i], b[s][q[i]])]
<1>1. S \in SUBSET Int /\ S \subseteq P /\ \A p \in S : b[s][p] \in Seq(Order)
  BY DEF IsBook
<1>2. /\ q \in [1 .. n -> S] /\ n \in Nat
      /\ \A i, j \in 1 .. n : i < j => q[i] < q[j]
      /\ \A x \in S : \E i \in 1 .. n : q[i] = x
  <2> HIDE DEF S
  <2>1. IsFiniteSet(S)
    BY DEF S
  <2>2. QED
    BY <1>1, <2>1, AscendingFacts
<1> HIDE DEF q, n
<1>3. \A i, j \in 1 .. n : i < j => q[i] # q[j]
  BY <1>1, <1>2
<1>4. \A i \in 1 .. n : seqs[i] = Rows(q[i], b[s][q[i]]) /\ seqs[i] \in Seq(E)
  <2> SUFFICES ASSUME NEW i \in 1 .. n PROVE Rows(q[i], b[s][q[i]]) \in Seq(E)
    OBVIOUS
  <2>1. q[i] \in P /\ b[s][q[i]] \in Seq(Order)
    BY <1>1, <1>2
  <2>2. QED
    BY <2>1, RowsType
<1>5. ExportSide(b, s) = FlattenSeq(seqs)
  <2>1. DOMAIN q = 1 .. n
    BY <1>2
  <2>2. QED
    BY <2>1 DEF ExportSide, Rows, q
<1>6. seqs = [i \in 1 .. n |-> seqs[i]]
  OBVIOUS
<1> HIDE DEF seqs, E
<1>7. seqs \in Seq(Seq(E)) /\ Len(seqs) = n
  BY <1>2, <1>4, <1>6
<1>8. PICK t \in [0 .. Len(seqs) -> Seq(E)] :
        /\ t[0] = <<>> /\ \A k \in 1 .. Len(seqs) : t[k] = t[k - 1] \o seqs[k]
        /\ FlattenSeq(seqs) = t[Len(seqs)]
  BY <1>7, FlattenFacts
<1>9. /\ t \in [0 .. n -> Seq(E)] /\ t[0] = <<>>
      /\ \A k \in 1 .. n : t[k] = t[k - 1] \o Rows(q[k], b[s][q[k]])
      /\ ExportSide(b, s) = t[n]
  BY <1>4, <1>5, <1>7, <1>8
<1>10. IsExport(t, n, q, b, s, P)
  BY <1>2, <1>3, <1>9 DEF E, S, IsExport
<1>11. QED
  BY <1>10

(* What was exported of a side makes that side again, where there is nothing. *)
LEMMA SideRested ==
  ASSUME NEW P \in SUBSET Int, NEW b, IsBook(b, P), NEW s \in Side, IsFiniteSet(DOMAIN b[s]),
         \A p \in DOMAIN b[s] : b[s][p] # <<>>,
         NEW base, IsBook(base, P), DOMAIN base[s] = {}
  PROVE  LET c == RestRows(base, s, ExportSide(b, s))
         IN  IsBook(c, P) /\ c[s] = b[s] /\ \A o \in Side : o # s => c[o] = base[o]
<1>0. PICK t, n, q : IsExport(t, n, q, b, s, P)
  BY ExportFacts
<1>1. /\ n \in Nat
      /\ q \in [1 .. n -> DOMAIN b[s]]
      /\ \A i, j \in 1 .. n : i < j => q[i] # q[j]
      /\ \A p \in DOMAIN b[s] : \E i \in 1 .. n : q[i] = p
      /\ t \in [0 .. n -> Seq(Row(P))] /\ t[0] = <<>>
      /\ \A k \in 1 .. n : t[k] = t[k - 1] \o Rows(q[k], b[s][q[k]])
      /\ ExportSide(b, s) = t[n]
  BY <1>0 DEF IsExport
<1> DEFINE Partly(c, k) ==
             /\ IsBook(c, P) /\ \A o \in Side : o # s => c[o] = base[o]
             /\ \A x : x \in DOMAIN c[s] <=> \E i \in 1 .. k : x = q[i]
             /\ \A x \in DOMAIN c[s] : c[s][x] = b[s][x]
           upTo == {k \in 0 .. n : Partly(RestRows(base, s, t[k]), k)}
<1>2. 0 \in upTo
  <2> DEFINE none == <<>>
  <2>1. Len(none) = 0 /\ t[0] = none
    BY <1>1
  <2>1a. none \in Seq(Row(P))
    OBVIOUS
  <2> HIDE DEF none
  <2>2. PICK u : IsResting(u, base, s, none) /\ RestRows(base, s, none) = u[Len(none)]
    BY <2>1a, RestRowsFacts
  <2>3. RestRows(base, s, t[0]) = base
    BY <2>1, <2>2 DEF IsResting
  <2>4. Partly(base, 0)
    OBVIOUS
  <2>5. 0 \in 0 .. n
    BY <1>1
  <2> HIDE DEF Partly
  <2>6. QED
    BY <2>3, <2>4, <2>5
<1>3. ASSUME NEW k \in 1 .. n, k - 1 \in upTo PROVE k \in upTo
  <2> DEFINE rows == t[k - 1]
             p == q[k]
             queue == b[s][p]
             level == Rows(p, queue)
             c == RestRows(base, s, rows)
             d == SetQueue(c, s, p, queue)
  <2>0. k \in 1 .. n /\ k - 1 \in 0 .. n /\ k \in 0 .. n
    BY <1>1
  <2>1. /\ rows \in Seq(Row(P)) /\ p \in DOMAIN b[s]
        /\ t[k] = rows \o level
    <3>1. rows \in Seq(Row(P))
      BY <1>1, <2>0
    <3>2. p \in DOMAIN b[s]
      BY <1>1, <2>0
    <3>3. t[k] = rows \o level
      BY <1>1, <2>0
    <3>4. QED
      BY <3>1, <3>2, <3>3
  <2>2. p \in P /\ queue \in Seq(Order) /\ queue # <<>>
    BY <2>1 DEF IsBook
  <2>3. Partly(c, k - 1)
    BY <1>3
  <2>4. p \notin DOMAIN c[s]
    <3>1. \A i \in 1 .. k - 1 : q[i] # p
      BY <1>1
    <3> HIDE DEF c
    <3>2. QED
      BY <2>3, <3>1
  <2>5. level \in Seq(Row(P))
    BY <2>2, RowsType
  <2> HIDE DEF queue, level, rows
  <2>6. RestRows(base, s, t[k]) = RestRows(c, s, level)
    BY <2>1, <2>5, RestRowsJoined
  <2> HIDE DEF c
  <2>7. IsBook(c, P)
    BY <2>3
  <2> HIDE DEF p
  <2>8. RestRows(c, s, level) = d
    BY <2>2, <2>4, <2>7, LevelRested DEF level
  <2>9. /\ IsBook(d, P)
        /\ \A o \in Side : o # s => d[o] = c[o]
        /\ queue # <<>> => DOMAIN d[s] = DOMAIN c[s] \cup {p}
        /\ queue # <<>> => d[s][p] = queue
        /\ \A x \in DOMAIN d[s] : x # p => d[s][x] = c[s][x]
    BY <2>2, <2>7, SetQueueFacts
  <2> HIDE DEF d
  <2>10. \A x : x \in DOMAIN d[s] <=> \E i \in 1 .. k : x = q[i]
    <3> SUFFICES ASSUME NEW x
                 PROVE  x \in DOMAIN d[s] <=> \E i \in 1 .. k : x = q[i]
      OBVIOUS
    <3>1. x \in DOMAIN d[s] <=> x \in DOMAIN c[s] \/ x = q[k]
      BY <2>2, <2>9 DEF p
    <3>2. x \in DOMAIN c[s] <=> \E i \in 1 .. k - 1 : x = q[i]
      BY <2>3
    <3>3. (\E i \in 1 .. k : x = q[i]) <=> (\E i \in 1 .. k - 1 : x = q[i]) \/ x = q[k]
      OBVIOUS
    <3>4. QED
      BY <3>1, <3>2, <3>3
  <2>11. \A x \in DOMAIN d[s] : d[s][x] = b[s][x]
    BY <2>2, <2>3, <2>9 DEF queue
  <2>12. \A o \in Side : o # s => d[o] = base[o]
    BY <2>3, <2>9
  <2>13. Partly(d, k)
    BY <2>9, <2>10, <2>11, <2>12
  <2> HIDE DEF Partly
  <2>14. QED
    BY <2>0, <2>6, <2>8, <2>13
<1> HIDE DEF upTo
<1>4. \A k \in 0 .. n : k \in upTo
  BY <1>1, <1>2, <1>3, Induct
<1> DEFINE c == RestRows(base, s, t[n])
<1>5. Partly(c, n)
  <2> HIDE DEF Partly
  <2>1. n \in upTo
    BY <1>1, <1>4
  <2>2. QED
    BY <2>1 DEF upTo
<1> HIDE DEF c
<1>6. c[s] = b[s]
  <2>1. DOMAIN c[s] = DOMAIN b[s]
    <3>1. \A x : x \in DOMAIN c[s] <=> \E i \in 1 .. n : x = q[i]
      BY <1>5
    <3>2. \A x : x \in DOMAIN b[s] <=> \E i \in 1 .. n : x = q[i]
      BY <1>1
    <3>3. QED
      BY <3>1, <3>2
  <2>2. c[s] = [x \in DOMAIN c[s] |-> c[s][x]] /\ b[s] = [x \in DOMAIN b[s] |-> b[s][x]]
    BY <1>5 DEF IsBook
  <2>3. \A x \in DOMAIN c[s] : c[s][x] = b[s][x]
    BY <1>5
  <2>4. QED
    BY <2>1, <2>2, <2>3
<1>7. QED
  BY <1>1, <1>5, <1>6 DEF c

(* A snapshot rebuilds the book it was taken of, queue order included, *)
(* whatever book there was before: BookResync loses nothing.           *)
LEMMA RoundTrip ==
  ASSUME NEW P \in SUBSET Int, NEW b, IsBook(b, P), LiveBook(b), Finite(b), NEW old
  PROVE  RebuildFromResync(old, ExportResync(b)) = b
<1> DEFINE bid == "Bid"
           ask == "Ask"
           c == RestRows(EmptyBook, bid, ExportSide(b, bid))
           d == RestRows(c, ask, ExportSide(b, ask))
<1>1. /\ bid \in Side /\ ask \in Side /\ bid # ask /\ \A s \in Side : s = bid \/ s = ask
  BY DEF Side
<1>2. IsBook(EmptyBook, P) /\ \A s \in Side : DOMAIN EmptyBook[s] = {}
  BY DEF EmptyBook, IsBook
<1>3. \A s \in Side : IsFiniteSet(DOMAIN b[s]) /\ \A p \in DOMAIN b[s] : b[s][p] # <<>>
  BY DEF Finite, LiveBook
<1>4. RebuildFromResync(old, ExportResync(b)) = d
  BY DEF RebuildFromResync, ExportResync
<1> HIDE DEF bid, ask
<1>5. IsBook(c, P) /\ c[bid] = b[bid] /\ \A o \in Side : o # bid => c[o] = EmptyBook[o]
  BY <1>1, <1>2, <1>3, SideRested
<1> HIDE DEF c
<1>6. DOMAIN c[ask] = {}
  BY <1>1, <1>2, <1>5
<1>7. IsBook(d, P) /\ d[ask] = b[ask] /\ \A o \in Side : o # ask => d[o] = c[o]
  BY <1>1, <1>3, <1>5, <1>6, SideRested
<1> HIDE DEF d
<1>8. \A s \in Side : d[s] = b[s]
  BY <1>1, <1>5, <1>7
<1>9. d = b
  BY <1>7, <1>8, SameBook
<1>10. QED
  BY <1>4, <1>9

\* The rows are the orders of side s at these levels, each at its price.
IsContent(rows, b, s, levels) ==
  /\ \A i \in 1 .. Len(rows) :
       /\ rows[i].price \in DOMAIN b[s]
       /\ \E j \in DOMAIN b[s][rows[i].price] : rows[i].order = b[s][rows[i].price][j]
  /\ \A p \in levels : \A j \in DOMAIN b[s][p] :
       \E i \in 1 .. Len(rows) : rows[i].price = p /\ rows[i].order = b[s][p][j]

(* One level more. *)
LEMMA ContentGrows ==
  ASSUME NEW P, NEW b, IsBook(b, P), NEW s \in Side, NEW levels, NEW p \in DOMAIN b[s],
         NEW rows \in Seq(Row(P)), IsContent(rows, b, s, levels)
  PROVE  IsContent(rows \o Rows(p, b[s][p]), b, s, levels \cup {p})
<1> DEFINE queue == b[s][p]
           more == Rows(p, queue)
           all == rows \o more
           m == Len(rows)
           n == Len(queue)
<1>1. queue \in Seq(Order) /\ p \in P
  BY DEF IsBook
<1>2. n \in Nat /\ m \in Nat /\ DOMAIN queue = 1 .. n
  BY <1>1
<1>3. /\ more \in Seq(Row(P)) /\ Len(more) = n
      /\ \A i \in 1 .. n : more[i].price = p /\ more[i].order = queue[i]
  BY <1>1, RowsType
<1> HIDE DEF more, queue, m, n
<1>4. /\ Len(all) = m + n
      /\ \A k \in 1 .. m : all[k] = rows[k]
      /\ \A k \in 1 .. n : all[m + k] = more[k]
  <2>1. more \in Seq(Row(P))
    BY <1>3
  <2>2. /\ Len(all) = Len(rows) + Len(more)
        /\ \A k \in 1 .. Len(rows) : all[k] = rows[k]
        /\ \A k \in 1 .. Len(more) : all[Len(rows) + k] = more[k]
    BY <2>1, Joined
  <2> HIDE DEF all
  <2>3. QED
    BY <1>3, <2>2 DEF m
<1> HIDE DEF all
<1>5. ASSUME NEW i \in 1 .. Len(all)
      PROVE  /\ all[i].price \in DOMAIN b[s]
             /\ \E j \in DOMAIN b[s][all[i].price] : all[i].order = b[s][all[i].price][j]
  <2>1. CASE i <= m
    <3>1. i \in 1 .. m /\ all[i] = rows[i]
      BY <1>2, <1>4, <2>1
    <3>2. QED
      BY <3>1 DEF IsContent, m
  <2>2. CASE i > m
    <3> DEFINE j == i - m
    <3>1. j \in 1 .. n /\ i = m + j
      BY <1>2, <1>4, <2>2
    <3>2. all[i].price = p /\ all[i].order = queue[j] /\ j \in DOMAIN queue
      BY <1>2, <1>3, <1>4, <3>1
    <3> HIDE DEF j
    <3>3. QED
      BY <3>2 DEF queue
  <2>3. QED
    BY <1>2, <1>4, <2>1, <2>2
<1>6. ASSUME NEW x \in levels \cup {p}, NEW j \in DOMAIN b[s][x]
      PROVE  \E i \in 1 .. Len(all) : all[i].price = x /\ all[i].order = b[s][x][j]
  <2>1. CASE x = p
    <3>1. j \in 1 .. n
      BY <1>2, <2>1 DEF queue
    <3>2. m + j \in 1 .. Len(all) /\ all[m + j].price = p /\ all[m + j].order = queue[j]
      BY <1>2, <1>3, <1>4, <3>1
    <3>3. QED
      BY <2>1, <3>2 DEF queue
  <2>2. CASE x # p
    <3>1. x \in levels
      BY <2>2
    <3>2. PICK i \in 1 .. m : rows[i].price = x /\ rows[i].order = b[s][x][j]
      BY <3>1 DEF IsContent, m
    <3>3. i \in 1 .. Len(all) /\ all[i] = rows[i]
      BY <1>2, <1>4
    <3>4. QED
      BY <3>2, <3>3
  <2>3. QED
    BY <2>1, <2>2
<1>7. QED
  BY <1>5, <1>6 DEF IsContent, all, more, queue

(* What is exported of a side is every order of it, at its price, and no other. *)
LEMMA ExportContent ==
  ASSUME NEW P \in SUBSET Int, NEW b, IsBook(b, P), NEW s \in Side, IsFiniteSet(DOMAIN b[s])
  PROVE  ExportSide(b, s) \in Seq(Row(P)) /\ IsContent(ExportSide(b, s), b, s, DOMAIN b[s])
<1>0. PICK t, n, q : IsExport(t, n, q, b, s, P)
  BY ExportFacts
<1>1. /\ n \in Nat
      /\ q \in [1 .. n -> DOMAIN b[s]]
      /\ \A p \in DOMAIN b[s] : \E i \in 1 .. n : q[i] = p
      /\ t \in [0 .. n -> Seq(Row(P))] /\ t[0] = <<>>
      /\ \A k \in 1 .. n : t[k] = t[k - 1] \o Rows(q[k], b[s][q[k]])
      /\ ExportSide(b, s) = t[n]
  BY <1>0 DEF IsExport
<1> DEFINE levels(k) == {q[i] : i \in 1 .. k}
           upTo == {k \in 0 .. n : IsContent(t[k], b, s, levels(k))}
<1>2. 0 \in upTo
  <2>1. levels(0) = {} /\ Len(t[0]) = 0 /\ 0 \in 0 .. n
    BY <1>1
  <2> HIDE DEF levels
  <2>2. IsContent(t[0], b, s, levels(0))
    BY <2>1 DEF IsContent
  <2>3. QED
    BY <2>1, <2>2
<1>3. ASSUME NEW k \in 1 .. n, k - 1 \in upTo PROVE k \in upTo
  <2> DEFINE p == q[k]
             rows == t[k - 1]
             some == levels(k - 1)
  <2>1. k \in 0 .. n /\ k - 1 \in 0 .. n /\ k \in Nat \ {0}
    BY <1>1
  <2>2. p \in DOMAIN b[s]
    BY <1>1
  <2>3. rows \in Seq(Row(P))
    BY <1>1, <2>1
  <2>4. t[k] = rows \o Rows(p, b[s][p])
    BY <1>1
  <2>5. levels(k) = some \cup {p}
    BY <2>1
  <2>6. IsContent(rows, b, s, some)
    BY <1>3
  <2> HIDE DEF levels, some, rows, p
  <2>7. IsContent(rows \o Rows(p, b[s][p]), b, s, some \cup {p})
    BY <2>2, <2>3, <2>6, ContentGrows
  <2>8. QED
    BY <2>1, <2>4, <2>5, <2>7
<1>4. levels(n) = DOMAIN b[s]
  <2>1. ASSUME NEW p \in levels(n) PROVE p \in DOMAIN b[s]
    <3>1. PICK i \in 1 .. n : p = q[i]
      BY <2>1
    <3>2. QED
      BY <1>1, <3>1
  <2>2. ASSUME NEW p \in DOMAIN b[s] PROVE p \in levels(n)
    <3>1. PICK i \in 1 .. n : q[i] = p
      BY <1>1, <2>2
    <3>2. QED
      BY <3>1
  <2>3. QED
    BY <2>1, <2>2
<1> HIDE DEF upTo, levels
<1>5. \A k \in 0 .. n : k \in upTo
  BY <1>1, <1>2, <1>3, Induct
<1>6. n \in 0 .. n
  BY <1>1
<1>7. n \in upTo
  BY <1>5, <1>6
<1>8. QED
  BY <1>1, <1>4, <1>6, <1>7 DEF upTo
=============================================================================
