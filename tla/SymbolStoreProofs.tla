-------------------------- MODULE SymbolStoreProofs --------------------------
(***************************************************************************)
(* Proofs about the concentration algorithm, the MRZ state engine that     *)
(* calls it and the symbol store that replays the engine, for every set of *)
(* observations, every rule and every promotion.                           *)
(*                                                                         *)
(* The first part is about the algorithm: a window sorted by price lists   *)
(* the retained observations, its tightest group of the required size is a *)
(* run of places, and the core is what that run can grow to.  It ends with *)
(* the contracts the other parts assume of any evaluator and of any list   *)
(* of near misses, EvaluatorContract and NearMissContract.                 *)
(*                                                                         *)
(* The second part is about one iteration of the loop and the engine's     *)
(* specification; the third, from SmallestExists on, about the store.      *)
(* There, Replay is a recursive function on sets of observations.  What it *)
(* computes is only known on finite sets, by a step for the newest         *)
(* observation (ReplayEquation); whatever holds of every replay is proved  *)
(* by looking at a smallest set of which it would not.                     *)
(***************************************************************************)
EXTENDS SymbolStore, ConcentrationSpec, NearMiss, FiniteSetTheorems,
        FunctionTheorems, TLAPS

\* Observations of one symbol: records with an id of their own.
Packet == [id : Int, at : Int, route : Routes, price : Int, tick : Nat \ {0},
           high : Int, low : Int]
Packets(S) ==
  /\ IsFiniteSet(S) /\ S \subseteq Packet
  /\ \A a, b \in S : a.id = b.id => a = b

(* A non-empty set of naturals has a least member; induction over the      *)
(* naturals is argued with it.                                             *)
LEMMA LeastNatural ==
  ASSUME NEW T \in SUBSET Nat, T # {}
  PROVE  \E n \in T : \A m \in T : n <= m
<1> DEFINE Below == {ss \in Nat \X Nat : ss[1] < ss[2]}
<1>1. IsWellFoundedOn(Below, Nat)
  BY NatLessThanWellFounded DEF OpToRel
<1>2. PICK n \in T : \A m \in T : ~(<<m, n>> \in Below)
  BY <1>1, WFMin
<1>3. ASSUME NEW m \in T PROVE n <= m
  <2>1. ~(<<m, n>> \in Below) /\ n \in Nat /\ m \in Nat
    BY <1>2
  <2> QED
    BY <2>1
<1> QED
  BY <1>3

(* The number of smaller elements numbers the elements of a finite set.    *)
LEMMA Ranks ==
  ASSUME NEW S, IsFiniteSet(S), NEW Less,
         \A a \in S : <<a, a>> \notin Less,
         \A a, b, c \in S : <<a, b>> \in Less /\ <<b, c>> \in Less => <<a, c>> \in Less,
         \A a, b \in S : a # b => <<a, b>> \in Less \/ <<b, a>> \in Less,
         NEW rank, rank = [a \in S |-> Cardinality({b \in S : <<b, a>> \in Less})]
  PROVE  /\ \A a \in S : rank[a] \in Nat /\ rank[a] < Cardinality(S)
         /\ \A a, b \in S : <<a, b>> \in Less <=> rank[a] < rank[b]
         /\ \A i \in 1..Cardinality(S) : \E a \in S : rank[a] = i - 1
<1> DEFINE n == Cardinality(S)
           Lower(a) == {b \in S : <<b, a>> \in Less}
<1>0. n \in Nat
  BY FS_CardinalityType
<1>a. \A a \in S : rank[a] = Cardinality(Lower(a))
  OBVIOUS
<1>b. \A a \in S : Lower(a) \in SUBSET (S \ {a}) /\ Lower(a) \in SUBSET S
  OBVIOUS
<1>c. \A a, b \in S : <<a, b>> \in Less =>
        Lower(a) \in SUBSET Lower(b) /\ Lower(a) # Lower(b)
  <2> SUFFICES ASSUME NEW a \in S, NEW b \in S, <<a, b>> \in Less
               PROVE  Lower(a) \in SUBSET Lower(b) /\ Lower(a) # Lower(b)
    OBVIOUS
  <2>1. a \in Lower(b) /\ a \notin Lower(a)
    OBVIOUS
  <2> QED
    BY <2>1
<1> HIDE DEF Lower
<1>1. ASSUME NEW a \in S PROVE rank[a] \in Nat /\ rank[a] < n
  <2>2. IsFiniteSet(S \ {a}) /\ Cardinality(S \ {a}) = n - 1
    BY FS_RemoveElement
  <2>3. IsFiniteSet(Lower(a)) /\ Cardinality(Lower(a)) <= n - 1
    <3>1. Lower(a) \in SUBSET (S \ {a})
      BY <1>b
    <3> HIDE DEF n
    <3>2. /\ IsFiniteSet(Lower(a))
          /\ Cardinality(Lower(a)) <= Cardinality(S \ {a})
      BY <2>2, <3>1, FS_Subset
    <3> QED
      BY <2>2, <3>2
  <2>4. Cardinality(Lower(a)) \in Nat
    BY <2>3, FS_CardinalityType
  <2> HIDE DEF n
  <2> QED
    BY <1>0, <1>a, <2>3, <2>4
<1>2. ASSUME NEW a \in S, NEW b \in S, <<a, b>> \in Less PROVE rank[a] < rank[b]
  <2>1. Lower(a) \in SUBSET Lower(b) /\ Lower(a) # Lower(b)
    BY <1>2, <1>c
  <2>2. IsFiniteSet(Lower(b))
    BY <1>b, FS_Subset
  <2>3. /\ Cardinality(Lower(a)) <= Cardinality(Lower(b))
        /\ Cardinality(Lower(a)) # Cardinality(Lower(b))
    BY <2>1, <2>2, FS_Subset
  <2>4. rank[a] <= rank[b] /\ rank[a] # rank[b]
    BY <1>a, <2>3
  <2>5. rank[a] \in Nat /\ rank[b] \in Nat
    BY <1>1
  <2> QED
    BY <2>4, <2>5
<1>d. \A a, b \in S : <<a, b>> \in Less => rank[a] < rank[b]
  BY <1>2
<1> HIDE DEF n
<1>3. ASSUME NEW a \in S, NEW b \in S, rank[a] < rank[b] PROVE <<a, b>> \in Less
  <2>0. rank[a] \in Nat /\ rank[b] \in Nat
    BY <1>1
  <2>1. a # b
    BY <1>3, <2>0
  <2>2. <<b, a>> \in Less => rank[b] < rank[a]
    BY <1>2
  <2>3. <<b, a>> \notin Less
    BY <1>3, <2>0, <2>2
  <2> QED
    BY <2>1, <2>3
<1>4. ASSUME NEW i \in 1..n PROVE \E a \in S : rank[a] = i - 1
  <2> DEFINE f == [a \in S |-> rank[a] + 1]
  <2>1. f \in [S -> 1..n]
    BY <1>0, <1>1
  <2>2. ASSUME NEW a \in S, NEW b \in S, f[a] = f[b] PROVE a = b
    <3>1. rank[a] \in Nat /\ rank[b] \in Nat
      BY <1>1
    <3>2. rank[a] = rank[b]
      BY <2>2, <3>1
    <3>3. ~(rank[a] < rank[b]) /\ ~(rank[b] < rank[a])
      BY <3>1, <3>2
    <3>4. <<a, b>> \notin Less /\ <<b, a>> \notin Less
      BY <1>d, <3>3
    <3> QED
      BY <3>4
  <2>a. f = [a \in S |-> f[a]] /\ \A a \in S : f[a] = rank[a] + 1
    OBVIOUS
  <2> HIDE DEF f
  <2>3. f \in Injection(S, 1..n)
    BY <2>1, <2>2, Fun_IsInj
  <2>4. IsFiniteSet(1..n) /\ Cardinality(1..n) = n
    BY <1>0, FS_Interval
  <2>5. f \in Surjection(S, 1..n)
    BY <2>3, <2>4, FS_Injection DEF n
  <2>6. PICK a \in S : f[a] = i
    BY <2>5 DEF Surjection
  <2>7. rank[a] \in Nat /\ rank[a] + 1 = i
    BY <1>1, <2>6, <2>a
  <2> QED
    BY <1>0, <2>7
<1>5. \A a, b \in S : <<a, b>> \in Less <=> rank[a] < rank[b]
  BY <1>2, <1>3
<1> QED
  BY <1>1, <1>4, <1>5 DEF n

(* The window in the order of its prices.                                  *)
LEMMA PriceOrder ==
  ASSUME NEW S, Packets(S)
  PROVE  /\ Cardinality(S) \in Nat
         /\ PriceSorted(S) \in Seq(S) /\ Len(PriceSorted(S)) = Cardinality(S)
         /\ \A o \in S : \E i \in 1..Cardinality(S) : PriceSorted(S)[i] = o
         /\ \A i, j \in 1..Cardinality(S) : PriceSorted(S)[i] = PriceSorted(S)[j] => i = j
         /\ \A i, j \in 1..Cardinality(S) :
              i <= j => PriceSorted(S)[i].price <= PriceSorted(S)[j].price
<1> DEFINE n == Cardinality(S)
           Less == {p \in S \X S : Cheaper(p[1], p[2])}
           rank == [a \in S |-> Cardinality({b \in S : <<b, a>> \in Less})]
           Place(i) == CHOOSE o \in S : Cardinality({p \in S : Cheaper(p, o)}) = i - 1
           q == [i \in 1..n |-> Place(i)]
<1>0. n \in Nat
  BY FS_CardinalityType DEF Packets
<1>1. \A a \in S : a.price \in Int /\ a.at \in Int /\ a.id \in Int
  BY DEF Packets, Packet
<1>2. \A a, b \in S : <<a, b>> \in Less <=> Cheaper(a, b)
  OBVIOUS
<1>3. \A a \in S : <<a, a>> \notin Less
  BY <1>1, <1>2 DEF Cheaper, Before
<1>4. \A a, b, c \in S : <<a, b>> \in Less /\ <<b, c>> \in Less => <<a, c>> \in Less
  BY <1>1, <1>2 DEF Cheaper, Before
<1>5. \A a, b \in S : a # b => <<a, b>> \in Less \/ <<b, a>> \in Less
  BY <1>1, <1>2 DEF Cheaper, Before, Packets
<1>6. \A a \in S : {b \in S : <<b, a>> \in Less} = {b \in S : Cheaper(b, a)}
  BY <1>2
<1> HIDE DEF Less
<1>7. /\ \A a \in S : rank[a] \in Nat /\ rank[a] < n
      /\ \A a, b \in S : <<a, b>> \in Less <=> rank[a] < rank[b]
      /\ \A i \in 1..n : \E a \in S : rank[a] = i - 1
  BY <1>3, <1>4, <1>5, Ranks DEF Packets
<1>8. \A a \in S : rank[a] = Cardinality({b \in S : Cheaper(b, a)})
  BY <1>6
<1> HIDE DEF rank
<1>9. ASSUME NEW i \in 1..n PROVE q[i] \in S /\ rank[q[i]] = i - 1
  <2>1. \E o \in S : Cardinality({p \in S : Cheaper(p, o)}) = i - 1
    BY <1>7, <1>8
  <2>2. Place(i) \in S /\ Cardinality({p \in S : Cheaper(p, Place(i))}) = i - 1
    BY <2>1
  <2>3. q[i] = Place(i)
    OBVIOUS
  <2> HIDE DEF q, Place
  <2> QED
    BY <1>8, <2>2, <2>3
<1>11. PriceSorted(S) = <<>> \o q
  BY DEF PriceSorted
<1> HIDE DEF Place
<1>10. q = [i \in 1..n |-> q[i]] /\ DOMAIN q = 1..n
  OBVIOUS
<1> HIDE DEF q, n
<1>12. q \in [1..n -> S]
  BY <1>9, <1>10
<1>13. q \in Seq(S) /\ Len(q) = n
  BY <1>0, <1>12
<1>14. PriceSorted(S) = q
  BY <1>11, <1>13
<1>15. ASSUME NEW o \in S PROVE \E i \in 1..n : q[i] = o
  <2>1. rank[o] + 1 \in 1..n
    BY <1>0, <1>7
  <2>2. rank[q[rank[o] + 1]] = rank[o] /\ q[rank[o] + 1] \in S
    BY <1>7, <1>9, <2>1
  <2>3. rank[o] \in Nat
    BY <1>7
  <2>4. ~(rank[q[rank[o] + 1]] < rank[o]) /\ ~(rank[o] < rank[q[rank[o] + 1]])
    BY <2>2, <2>3
  <2>5. q[rank[o] + 1] = o
    BY <1>5, <1>7, <2>2, <2>4
  <2> QED
    BY <2>1, <2>5
<1>16. ASSUME NEW i \in 1..n, NEW j \in 1..n, q[i] = q[j] PROVE i = j
  BY <1>9, <1>16
<1>17. ASSUME NEW i \in 1..n, NEW j \in 1..n, i <= j PROVE q[i].price <= q[j].price
  <2>1. CASE i = j
    BY <1>1, <1>9, <2>1
  <2>2. CASE i # j
    <3>1. rank[q[i]] < rank[q[j]]
      BY <1>9, <1>17, <2>2
    <3>2. Cheaper(q[i], q[j])
      BY <1>2, <1>7, <1>9, <3>1
    <3> QED
      BY <1>1, <1>9, <3>2 DEF Cheaper
  <2> QED
    BY <2>1, <2>2
<1> QED
  BY <1>0, <1>13, <1>14, <1>15, <1>16, <1>17 DEF n
------------------------------------------------------------------------------
(* expand_selected_seed: one step of its loop, for a function g that gives *)
(* what the loop comes to from where the step leads.                       *)
Fits(q, l, r, w, rule) ==
  l >= 1 /\ r <= Len(q) /\ WithinAllowance(SpanOf(q, l, r), w, rule)

LeftFirst(q, l, r, w, rule) ==
  /\ Fits(q, l - 1, r, w, rule)
  /\ Fits(q, l, r + 1, w, rule) => SpanOf(q, l - 1, r) <= SpanOf(q, l, r + 1)

Grown(g, b, q, w, rule) ==
  IF LeftFirst(q, b[1], b[2], w, rule) THEN g[<<b[1] - 1, b[2]>>]
  ELSE IF Fits(q, b[1], b[2] + 1, w, rule) THEN g[<<b[1], b[2] + 1>>]
  ELSE b

GrowLoop(g, q, w, rule) ==
  g = [b \in (1..Len(q)) \X (1..Len(q)) |-> Grown(g, b, q, w, rule)]

(* ExpandedBounds is the value of the loop function at the seed.           *)
LEMMA ExpandedIsGrown ==
  ASSUME NEW q, NEW l, NEW r, NEW w, NEW rule
  PROVE  ExpandedBounds(q, l, r, w, rule) = (CHOOSE g : GrowLoop(g, q, w, rule))[<<l, r>>]
BY DEF ExpandedBounds, GrowLoop, Grown, LeftFirst, Fits

(* The loop function exists: the two ends can only move apart within the   *)
(* sequence.                                                               *)
LEMMA GrowLoopExists ==
  ASSUME NEW q, Len(q) \in Nat, NEW w, NEW rule
  PROVE  \E g : GrowLoop(g, q, w, rule)
<1> DEFINE n == Len(q)
           D == (1..n) \X (1..n)
           Part(k) == {b \in D : b[1] + n - b[2] <= k}
           Holds(g, k) == \A b \in Part(k) : g[b] = Grown(g, b, q, w, rule)
           Bad == {k \in Nat : ~\E g : Holds(g, k)}
<1>n. n \in Nat
  OBVIOUS
<1> HIDE DEF n
<1>0. \A b \in D : b = <<b[1], b[2]>> /\ b[1] \in 1..n /\ b[2] \in 1..n
  OBVIOUS
<1>1. Bad = {}
  <2> SUFFICES ASSUME Bad # {} PROVE FALSE
    OBVIOUS
  <2>1. PICK k \in Bad : \A m \in Bad : k <= m
    BY LeastNatural
  <2>2. k # 0
    <3>1. \A b \in D : ~(b[1] + n - b[2] <= 0)
      <4> SUFFICES ASSUME NEW b \in D PROVE ~(b[1] + n - b[2] <= 0)
        OBVIOUS
      <4>1. b[1] \in 1..n /\ b[2] \in 1..n
        BY <1>0
      <4> HIDE DEF D, Part, Holds, Bad
      <4> QED
        BY <1>n, <4>1
    <3>2. \A g : Holds(g, 0)
      BY <3>1
    <3> QED
      BY <2>1, <3>2
  <2>3. k \in Nat /\ k - 1 \in Nat /\ k - 1 \notin Bad
    <3>1. k \in Nat /\ \A m \in Bad : m >= k /\ m \in Nat
      BY <2>1
    <3> HIDE DEF Bad
    <3> QED
      BY <2>2, <3>1
  <2>4. PICK g : Holds(g, k - 1)
    BY <2>3
  <2> DEFINE h == [b \in D |-> IF b \in Part(k - 1) THEN g[b] ELSE Grown(g, b, q, w, rule)]
  <2>5. ASSUME NEW b \in Part(k)
        PROVE  /\ Fits(q, b[1] - 1, b[2], w, rule) => <<b[1] - 1, b[2]>> \in Part(k - 1)
               /\ Fits(q, b[1], b[2] + 1, w, rule) => <<b[1], b[2] + 1>> \in Part(k - 1)
    <3>1. b[1] \in 1..n /\ b[2] \in 1..n /\ b[1] + n - b[2] <= k
      BY <1>0
    <3>2. ASSUME Fits(q, b[1] - 1, b[2], w, rule)
          PROVE  /\ b[1] - 1 \in 1..n
                 /\ (b[1] - 1) + n - b[2] <= k - 1
      <4>1. b[1] - 1 >= 1
        BY <3>2 DEF Fits
      <4> HIDE DEF D, Part, Bad
      <4> QED
        BY <1>n, <2>3, <3>1, <4>1
    <3>3. ASSUME Fits(q, b[1], b[2] + 1, w, rule)
          PROVE  /\ b[2] + 1 \in 1..n
                 /\ b[1] + n - (b[2] + 1) <= k - 1
      <4>1. b[2] + 1 <= n
        BY <3>3 DEF Fits, n
      <4> HIDE DEF D, Part, Bad
      <4> QED
        BY <1>n, <2>3, <3>1, <4>1
    <3> QED
      BY <3>1, <3>2, <3>3
  <2>6. \A b \in D : h[b] = IF b \in Part(k - 1) THEN g[b] ELSE Grown(g, b, q, w, rule)
    OBVIOUS
  <2>7. Part(k - 1) \subseteq D /\ Part(k) \subseteq D
    OBVIOUS
  <2>8. \A b \in Part(k - 1) : g[b] = Grown(g, b, q, w, rule)
    BY <2>4
  <2> HIDE DEF h, Part, D
  <2>9. ASSUME NEW b \in Part(k) PROVE Grown(h, b, q, w, rule) = Grown(g, b, q, w, rule)
    BY <2>5, <2>6, <2>7, <2>9 DEF Grown, LeftFirst
  <2>10. ASSUME NEW b \in Part(k) PROVE h[b] = Grown(h, b, q, w, rule)
    BY <2>6, <2>7, <2>8, <2>9, <2>10
  <2> QED
    BY <2>1, <2>10
<1>2. PICK g : Holds(g, 2 * n)
  <2>1. 2 * n \in Nat
    BY <1>n
  <2> QED
    BY <1>1, <2>1
<1>3. \A b \in D : b \in Part(2 * n)
  <2>1. \A b \in D : b[1] + n - b[2] <= 2 * n
    BY <1>n, <1>0
  <2> QED
    BY <2>1
<1> DEFINE h == [b \in D |-> g[b]]
<1>4. ASSUME NEW b \in D
      PROVE  /\ Fits(q, b[1] - 1, b[2], w, rule) => <<b[1] - 1, b[2]>> \in D
             /\ Fits(q, b[1], b[2] + 1, w, rule) => <<b[1], b[2] + 1>> \in D
  BY <1>0 DEF Fits, n
<1>5. \A b \in D : h[b] = g[b]
  OBVIOUS
<1>6. \A b \in D : g[b] = Grown(g, b, q, w, rule)
  BY <1>2, <1>3
<1>7. h = [b \in D |-> h[b]]
  OBVIOUS
<1> HIDE DEF h, D
<1>8. ASSUME NEW b \in D PROVE h[b] = Grown(h, b, q, w, rule)
  <2>1. Grown(h, b, q, w, rule) = Grown(g, b, q, w, rule)
    BY <1>4, <1>5 DEF Grown, LeftFirst
  <2> QED
    BY <1>5, <1>6, <2>1
<1>9. h = [b \in D |-> Grown(h, b, q, w, rule)]
  BY <1>7, <1>8
<1>10. GrowLoop(h, q, w, rule)
  BY <1>9 DEF GrowLoop, D, n
<1> QED
  BY <1>10

(* The loop grows the seed as long as a neighbour fits, and no further.    *)
LEMMA Expansion ==
  ASSUME NEW q, Len(q) \in Nat, NEW w, NEW rule,
         NEW l \in 1..Len(q), NEW r \in 1..Len(q), l <= r, Fits(q, l, r, w, rule)
  PROVE  \E a \in 1..l, b \in r..Len(q) :
           /\ ExpandedBounds(q, l, r, w, rule) = <<a, b>>
           /\ Fits(q, a, b, w, rule)
           /\ ~Fits(q, a - 1, b, w, rule) /\ ~Fits(q, a, b + 1, w, rule)
<1> DEFINE n == Len(q)
           D == (1..n) \X (1..n)
           g == CHOOSE f : GrowLoop(f, q, w, rule)
           Bounds(x, y) == \E a \in 1..x, b \in y..n :
                           /\ g[<<x, y>>] = <<a, b>>
                           /\ Fits(q, a, b, w, rule)
                           /\ ~Fits(q, a - 1, b, w, rule) /\ ~Fits(q, a, b + 1, w, rule)
           Bad == {k \in Nat : \E x, y \in 1..n :
                     k = x + n - y /\ x <= y /\ Fits(q, x, y, w, rule) /\ ~Bounds(x, y)}
<1>n. n \in Nat
  OBVIOUS
<1>1. GrowLoop(g, q, w, rule)
  BY GrowLoopExists
<1>2. ExpandedBounds(q, l, r, w, rule) = g[<<l, r>>]
  BY ExpandedIsGrown
<1> HIDE DEF g
<1>3. \A x, y \in 1..n : g[<<x, y>>] =
        IF LeftFirst(q, x, y, w, rule) THEN g[<<x - 1, y>>]
        ELSE IF Fits(q, x, y + 1, w, rule) THEN g[<<x, y + 1>>]
        ELSE <<x, y>>
  <2> SUFFICES ASSUME NEW x \in 1..n, NEW y \in 1..n
               PROVE  g[<<x, y>>] =
                        IF LeftFirst(q, x, y, w, rule) THEN g[<<x - 1, y>>]
                        ELSE IF Fits(q, x, y + 1, w, rule) THEN g[<<x, y + 1>>]
                        ELSE <<x, y>>
    OBVIOUS
  <2>1. <<x, y>> \in D /\ <<x, y>>[1] = x /\ <<x, y>>[2] = y
    OBVIOUS
  <2>2. g[<<x, y>>] = Grown(g, <<x, y>>, q, w, rule)
    BY <1>1, <2>1 DEF GrowLoop
  <2> QED
    BY <2>1, <2>2 DEF Grown
<1> HIDE DEF n
<1>4. Bad = {}
  <2> SUFFICES ASSUME Bad # {} PROVE FALSE
    OBVIOUS
  <2>1. PICK k \in Bad : \A m \in Bad : k <= m
    BY LeastNatural
  <2>a. \A x, y \in 1..n : x <= y /\ Fits(q, x, y, w, rule) /\ ~Bounds(x, y) =>
          x + n - y \notin Nat \/ k <= x + n - y
    <3> SUFFICES ASSUME NEW x \in 1..n, NEW y \in 1..n, x + n - y \in Nat,
                        x <= y, Fits(q, x, y, w, rule), ~Bounds(x, y)
                 PROVE  k <= x + n - y
      OBVIOUS
    <3> HIDE DEF Bounds
    <3>1. x + n - y \in Bad
      OBVIOUS
    <3> HIDE DEF Bad
    <3> QED
      BY <2>1, <3>1
  <2>2. PICK x \in 1..n, y \in 1..n :
          k = x + n - y /\ x <= y /\ Fits(q, x, y, w, rule) /\ ~Bounds(x, y)
    BY <2>1
  <2>b. ASSUME NEW z \in 1..x, NEW v \in y..n, g[<<x, y>>] = g[<<z, v>>], Bounds(z, v)
        PROVE  Bounds(x, y)
    <3>1. PICK a \in 1..z, b \in v..n :
            /\ g[<<x, y>>] = <<a, b>>
            /\ Fits(q, a, b, w, rule)
            /\ ~Fits(q, a - 1, b, w, rule) /\ ~Fits(q, a, b + 1, w, rule)
      BY <2>b
    <3>2. a \in 1..x /\ b \in y..n
      BY <1>n, <2>2
    <3> QED
      BY <3>1, <3>2
  <2> HIDE DEF Bad, Bounds
  <2>3. ASSUME LeftFirst(q, x, y, w, rule) PROVE FALSE
    <3>1. Fits(q, x - 1, y, w, rule) /\ x - 1 \in 1..n
      BY <1>n, <2>2, <2>3 DEF LeftFirst, Fits
    <3>2. (x - 1) + n - y \in Nat /\ ~(k <= (x - 1) + n - y) /\ x - 1 <= y
      BY <1>n, <2>2, <3>1
    <3>3. Bounds(x - 1, y)
      BY <2>a, <3>1, <3>2
    <3>4. g[<<x, y>>] = g[<<x - 1, y>>]
      BY <1>3, <2>3
    <3>5. x - 1 \in 1..x /\ y \in y..n
      BY <1>n, <2>2, <3>1
    <3> QED
      BY <2>2, <2>b, <3>3, <3>4, <3>5
  <2>4. ASSUME ~LeftFirst(q, x, y, w, rule), Fits(q, x, y + 1, w, rule) PROVE FALSE
    <3>1. y + 1 \in 1..n
      BY <1>n, <2>2, <2>4 DEF Fits, n
    <3>2. x + n - (y + 1) \in Nat /\ ~(k <= x + n - (y + 1)) /\ x <= y + 1
      BY <1>n, <2>2, <3>1
    <3>3. Bounds(x, y + 1)
      BY <2>a, <2>4, <3>1, <3>2
    <3>4. g[<<x, y>>] = g[<<x, y + 1>>]
      BY <1>3, <2>4
    <3>5. x \in 1..x /\ y + 1 \in y..n
      BY <1>n, <2>2, <3>1
    <3> QED
      BY <2>2, <2>b, <3>3, <3>4, <3>5
  <2>5. ASSUME ~LeftFirst(q, x, y, w, rule), ~Fits(q, x, y + 1, w, rule) PROVE FALSE
    <3>1. ~Fits(q, x - 1, y, w, rule)
      BY <2>5 DEF LeftFirst
    <3>2. g[<<x, y>>] = <<x, y>>
      BY <1>3, <2>2, <2>5
    <3>3. x \in 1..x /\ y \in y..n
      BY <1>n, <2>2
    <3> QED
      BY <2>2, <2>5, <3>1, <3>2, <3>3 DEF Bounds
  <2> QED
    BY <2>3, <2>4, <2>5
<1>5. l + n - r \in Nat /\ l \in 1..n /\ r \in 1..n
  BY <1>n DEF n
<1>6. Bounds(l, r)
  BY <1>4, <1>5
<1> QED
  BY <1>2, <1>6 DEF n

------------------------------------------------------------------------------
(* A non-empty set of places has a first and a last one.                   *)
LEMMA LeastAndGreatest ==
  ASSUME NEW T, NEW n \in Nat, T \in SUBSET (1..n), T # {}
  PROVE  /\ \E a \in T : \A i \in T : a <= i
         /\ \E b \in T : \A i \in T : i <= b
<1>1. \E a \in T : \A i \in T : a <= i
  <2>1. T \in SUBSET Nat
    OBVIOUS
  <2> QED
    BY <2>1, LeastNatural
<1>2. \E b \in T : \A i \in T : i <= b
  <2> DEFINE D == {n - i : i \in T}
  <2>0. \A i \in T : n - i \in Nat
    OBVIOUS
  <2>1. D \in SUBSET Nat /\ D # {}
    BY <2>0
  <2>2. PICK d \in D : \A e \in D : d <= e
    BY <2>1, LeastNatural
  <2>3. PICK b \in T : d = n - b
    OBVIOUS
  <2>4. ASSUME NEW i \in T PROVE i <= b
    <3>1. n - i \in D
      OBVIOUS
    <3>2. n - b <= n - i
      BY <2>2, <2>3, <3>1
    <3>3. b \in Int /\ i \in Int
      OBVIOUS
    <3> QED
      BY <3>2, <3>3
  <2> QED
    BY <2>4
<1> QED
  BY <1>1, <1>2

(* Ends gives the least and the greatest position.                         *)
LEMMA EndsAre ==
  ASSUME NEW T, NEW a \in T, NEW b \in T, T \in SUBSET Int,
         \A i \in T : a <= i /\ i <= b
  PROVE  Ends(T) = <<a, b>>
<1>1. \A x \in T : (\A j \in T : x <= j) => x = a
  BY a \in Int, b \in Int
<1>2. \A x \in T : (\A j \in T : x >= j) => x = b
  BY a \in Int, b \in Int
<1>3. (CHOOSE i \in T : \A j \in T : i <= j) = a
  BY <1>1
<1>4. (CHOOSE i \in T : \A j \in T : i >= j) = b
  BY <1>2
<1> QED
  BY <1>3, <1>4 DEF Ends

(* A window in the order of its prices.                                    *)
Sorted(q) ==
  /\ Len(q) \in Nat
  /\ \A i \in 1..Len(q) : q[i].price \in Int
  /\ \A i, j \in 1..Len(q) : i <= j => q[i].price <= q[j].price

(* In price order, a range of places within another spans no more.         *)
LEMMA SpanGrows ==
  ASSUME NEW q, Sorted(q),
         NEW i \in 1..Len(q), NEW a \in 1..Len(q), NEW b \in 1..Len(q), NEW j \in 1..Len(q),
         i <= a, a <= b, b <= j
  PROVE  /\ SpanOf(q, a, b) \in Nat /\ SpanOf(q, i, j) \in Nat
         /\ SpanOf(q, a, b) <= SpanOf(q, i, j)
<1>1. /\ q[i].price <= q[a].price /\ q[a].price <= q[b].price /\ q[b].price <= q[j].price
      /\ q[i].price \in Int /\ q[a].price \in Int /\ q[b].price \in Int /\ q[j].price \in Int
  BY DEF Sorted
<1> QED
  BY <1>1 DEF SpanOf

(* An allowance is a fraction that is not negative.                        *)
RuleOK(rule) == rule.num \in Nat /\ rule.den \in Nat \ {0} /\ rule.minimum \in Nat \ {0}

(* Multiplying by a natural keeps an inequality.                           *)
LEMMA ProductGrows ==
  ASSUME NEW x \in Int, NEW y \in Int, NEW d \in Nat, x <= y
  PROVE  x * d <= y * d
OBVIOUS

(* What an allowance admits of a span it admits of a smaller one.          *)
LEMMA WithinLess ==
  ASSUME NEW x \in Int, NEW y \in Int, NEW w \in Int, NEW rule, RuleOK(rule),
         x <= y, WithinAllowance(y, w, rule)
  PROVE  WithinAllowance(x, w, rule)
<1>1. rule.den \in Nat /\ rule.num \in Nat
  BY DEF RuleOK
<1>2. x * rule.den <= y * rule.den
  BY <1>1, ProductGrows
<1>3. y * rule.den <= rule.num * w
  BY DEF WithinAllowance
<1>4. x * rule.den \in Int /\ y * rule.den \in Int /\ rule.num * w \in Int
  BY <1>1
<1> QED
  BY <1>2, <1>3, <1>4 DEF WithinAllowance

(* Some window holds the newest observation, and a tightest one does.      *)
LEMMA TightestExists ==
  ASSUME NEW q, Sorted(q), NEW k \in 1..Len(q), NEW m \in 1..Len(q)
  PROVE  \E s \in SeedStarts(q, q[k], m) :
           /\ TightestSeed(q, q[k], m) = s..(s + m - 1)
           /\ \A t \in SeedStarts(q, q[k], m) :
                SpanOf(q, s, s + m - 1) <= SpanOf(q, t, t + m - 1)
<1> DEFINE n == Len(q)
           Starts == SeedStarts(q, q[k], m)
           span(s) == SpanOf(q, s, s + m - 1)
           Better(s, t) == span(s) < span(t) \/ (span(s) = span(t) /\ s <= t)
           best == CHOOSE s \in Starts : \A t \in Starts : Better(s, t)
<1>0. n \in Nat
  BY DEF Sorted
<1>1. Starts # {}
  <2> DEFINE s == IF k - m + 1 >= 1 THEN k - m + 1 ELSE 1
  <2>1. s \in 1..(n - m + 1) /\ k \in s..(s + m - 1)
    BY <1>0
  <2> QED
    BY <2>1 DEF SeedStarts
<1>2. \A s \in Starts : s \in 1..(n - m + 1) /\ s \in 1..n /\ s + m - 1 \in 1..n
  BY <1>0 DEF SeedStarts
<1>3. \A s \in Starts : span(s) \in Nat
  <2> SUFFICES ASSUME NEW s \in Starts PROVE span(s) \in Nat
    OBVIOUS
  <2>1. s \in 1..n /\ s + m - 1 \in 1..n /\ s <= s + m - 1
    BY <1>0, <1>2
  <2> QED
    BY <2>1, SpanGrows
<1> HIDE DEF Starts, span, n
<1>4. PICK d \in {span(s) : s \in Starts} : \A e \in {span(s) : s \in Starts} : d <= e
  <2>1. {span(s) : s \in Starts} \in SUBSET Nat /\ {span(s) : s \in Starts} # {}
    BY <1>1, <1>3
  <2> QED
    BY <2>1, LeastNatural
<1>5. PICK s \in {t \in Starts : span(t) = d} : \A t \in {u \in Starts : span(u) = d} : s <= t
  <2>1. {t \in Starts : span(t) = d} \in SUBSET Nat /\ {t \in Starts : span(t) = d} # {}
    BY <1>0, <1>2, <1>4
  <2> QED
    BY <2>1, LeastNatural
<1>6. s \in Starts /\ span(s) = d
  BY <1>5
<1>7. ASSUME NEW t \in Starts PROVE Better(s, t)
  <2>1. d <= span(t) /\ d \in Nat /\ span(t) \in Nat
    BY <1>3, <1>4, <1>6
  <2>2. CASE span(t) = d
    BY <1>5, <1>6, <2>2
  <2>3. CASE span(t) # d
    BY <1>6, <2>1, <2>3
  <2> QED
    BY <2>2, <2>3
<1>8. best \in Starts /\ \A t \in Starts : Better(best, t)
  BY <1>6, <1>7
<1>9. TightestSeed(q, q[k], m) = best..(best + m - 1)
  BY DEF TightestSeed, Starts, span
<1> HIDE DEF best
<1>10. ASSUME NEW t \in Starts PROVE span(best) <= span(t)
  <2>1. span(best) \in Nat /\ span(t) \in Nat
    BY <1>3, <1>8
  <2> QED
    BY <1>8, <2>1
<1> QED
  BY <1>8, <1>9, <1>10 DEF Starts, span

(* The difference between the extreme prices of a group.                   *)
LEMMA PriceSpanIs ==
  ASSUME NEW T, NEW a \in T, NEW b \in T, \A o \in T : o.price \in Int,
         \A o \in T : a.price <= o.price /\ o.price <= b.price
  PROVE  PriceSpan(T) = b.price - a.price
<1> DEFINE p == {o.price : o \in T}
<1>1. \A x \in p : x \in Int /\ a.price <= x /\ x <= b.price
  OBVIOUS
<1>2. a.price \in p /\ b.price \in p
  OBVIOUS
<1> HIDE DEF p
<1>3. (CHOOSE x \in p : \A y \in p : x >= y) = b.price
  <2>1. \A y \in p : b.price >= y
    BY <1>1, <1>2
  <2>2. \A x \in p : (\A y \in p : x >= y) => x = b.price
    BY <1>1, <1>2
  <2> QED
    BY <1>2, <2>1, <2>2
<1>4. (CHOOSE x \in p : \A y \in p : x <= y) = a.price
  <2>1. \A y \in p : a.price <= y
    BY <1>1, <1>2
  <2>2. \A x \in p : (\A y \in p : x <= y) => x = a.price
    BY <1>1, <1>2
  <2> QED
    BY <1>2, <2>1, <2>2
<1> QED
  BY <1>3, <1>4 DEF PriceSpan, p

\* The observations between two places of a window.
Slice(q, a, b) == {q[i] : i \in a..b}

(* The extreme prices of a range of places are those at its ends.          *)
LEMMA SliceSpan ==
  ASSUME NEW q, Sorted(q), NEW a \in 1..Len(q), NEW b \in 1..Len(q), a <= b
  PROVE  PriceSpan(Slice(q, a, b)) = SpanOf(q, a, b)
<1>0. Len(q) \in Nat
  BY DEF Sorted
<1>1. ASSUME NEW i \in a..b
      PROVE  q[i].price \in Int /\ q[a].price <= q[i].price /\ q[i].price <= q[b].price
  BY <1>0 DEF Sorted
<1>2. q[a] \in Slice(q, a, b) /\ q[b] \in Slice(q, a, b)
  BY <1>0 DEF Slice
<1>3. \A o \in Slice(q, a, b) :
        o.price \in Int /\ q[a].price <= o.price /\ o.price <= q[b].price
  BY <1>1 DEF Slice
<1> QED
  BY <1>2, <1>3, PriceSpanIs DEF SpanOf

(* A window and its order.                                                 *)
Lists(q, W) ==
  /\ IsFiniteSet(W) /\ Len(q) = Cardinality(W) /\ Sorted(q)
  /\ \A i \in 1..Len(q) : q[i] \in W
  /\ \A o \in W : \E i \in 1..Len(q) : q[i] = o
  /\ \A i, j \in 1..Len(q) : q[i] = q[j] => i = j

(* PriceSorted lists every observation of a window once, in price order.   *)
LEMMA PriceSortedLists ==
  ASSUME NEW W, Packets(W)
  PROVE  Lists(PriceSorted(W), W)
<1> DEFINE q == PriceSorted(W)
<1>1. /\ Cardinality(W) \in Nat
      /\ q \in Seq(W) /\ Len(q) = Cardinality(W)
      /\ \A o \in W : \E i \in 1..Cardinality(W) : q[i] = o
      /\ \A i, j \in 1..Cardinality(W) : q[i] = q[j] => i = j
      /\ \A i, j \in 1..Cardinality(W) : i <= j => q[i].price <= q[j].price
  BY PriceOrder
<1> HIDE DEF q
<1>2. \A i \in 1..Len(q) : q[i] \in W
  BY <1>1
<1>3. \A o \in W : o.price \in Int
  BY DEF Packets, Packet
<1>4. Sorted(q)
  BY <1>1, <1>2, <1>3 DEF Sorted
<1>5. Lists(q, W)
  BY <1>1, <1>2, <1>4 DEF Lists, Packets
<1> QED
  BY <1>5 DEF q

(* As many observations stand at a set of places as it has places.         *)
LEMMA PlacesCount ==
  ASSUME NEW q, NEW W, Lists(q, W), NEW I, I \in SUBSET (1..Len(q))
  PROVE  /\ IsFiniteSet(I) /\ IsFiniteSet({q[i] : i \in I})
         /\ Cardinality({q[i] : i \in I}) = Cardinality(I)
<1> DEFINE T == {q[i] : i \in I}
           f == [i \in I |-> q[i]]
<1>0. Len(q) \in Nat
  BY DEF Lists, Sorted
<1>1. IsFiniteSet(I)
  <2>1. IsFiniteSet(1..Len(q))
    BY <1>0, FS_Interval
  <2> QED
    BY <2>1, FS_Subset
<1>2. f \in [I -> T] /\ (\A t \in T : \E i \in I : f[i] = t)
  OBVIOUS
<1>3. \A i, j \in I : f[i] = f[j] => i = j
  BY DEF Lists
<1> HIDE DEF f, T
<1>4. f \in Bijection(I, T)
  BY <1>2, <1>3, Fun_IsBij
<1>5. ExistsBijection(I, T)
  BY <1>4 DEF ExistsBijection
<1>6. IsFiniteSet(T) /\ Cardinality(T) = Cardinality(I)
  BY <1>1, <1>5, FS_Bijection
<1> QED
  BY <1>1, <1>6 DEF T

(* No group that the newest observation belongs to is tighter than every   *)
(* contiguous window of its size that does.                                *)
LEMMA GroupHasWindow ==
  ASSUME NEW q, NEW W, Lists(q, W), NEW k \in 1..Len(q), NEW T \in SUBSET W, q[k] \in T
  PROVE  LET m == Cardinality(T)
         IN  /\ m \in 1..Len(q)
             /\ \E t \in SeedStarts(q, q[k], m) :
                  /\ SpanOf(q, t, t + m - 1) \in Int /\ PriceSpan(T) \in Int
                  /\ SpanOf(q, t, t + m - 1) <= PriceSpan(T)
<1> DEFINE n == Len(q)
           m == Cardinality(T)
           I == {i \in 1..n : q[i] \in T}
<1>0. n \in Nat /\ Sorted(q)
  BY DEF Lists, Sorted
<1>1. T = {q[i] : i \in I}
  BY DEF Lists
<1>2. I \in SUBSET (1..n) /\ k \in I
  OBVIOUS
<1> HIDE DEF I
<1>3. IsFiniteSet(I) /\ Cardinality(I) = m
  <2>1. IsFiniteSet(I) /\ Cardinality({q[i] : i \in I}) = Cardinality(I)
    BY <1>2, PlacesCount
  <2> QED
    BY <1>1, <2>1
<1>4. PICK a \in I : \A i \in I : a <= i
  BY <1>0, <1>2, LeastAndGreatest
<1>5. PICK b \in I : \A i \in I : i <= b
  BY <1>0, <1>2, LeastAndGreatest
<1>6. a \in 1..n /\ b \in 1..n /\ k \in 1..n /\ a <= k /\ k <= b
  BY <1>2, <1>4, <1>5
<1>7. m \in Nat /\ m <= b - a + 1
  <2>1. I \in SUBSET (a..b)
    BY <1>2, <1>4, <1>5
  <2>2. IsFiniteSet(a..b) /\ Cardinality(a..b) = b - a + 1
    BY <1>6, FS_Interval
  <2> HIDE DEF m
  <2>3. Cardinality(I) <= b - a + 1
    BY <2>1, <2>2, FS_Subset
  <2>4. Cardinality(I) \in Nat
    BY <1>3, FS_CardinalityType
  <2> QED
    BY <1>3, <2>3, <2>4
<1>8. m # 0
  BY <1>2, <1>3, FS_EmptySet
<1> HIDE DEF m, n
<1>9. m \in 1..n
  BY <1>0, <1>6, <1>7, <1>8
<1> DEFINE t == IF k - m + 1 >= a THEN k - m + 1 ELSE a
<1>10. t \in 1..(n - m + 1) /\ k \in t..(t + m - 1) /\ a <= t /\ t + m - 1 <= b
  BY <1>0, <1>6, <1>7, <1>9
<1>11. t \in SeedStarts(q, q[k], m)
  BY <1>10 DEF SeedStarts, n
<1> HIDE DEF t
<1>12. t \in 1..n /\ t + m - 1 \in 1..n /\ t <= t + m - 1
  BY <1>0, <1>9, <1>10
<1>13. /\ SpanOf(q, t, t + m - 1) \in Nat /\ SpanOf(q, a, b) \in Nat
       /\ SpanOf(q, t, t + m - 1) <= SpanOf(q, a, b)
  BY <1>0, <1>6, <1>10, <1>12, SpanGrows DEF n
<1>14. PriceSpan(T) = SpanOf(q, a, b)
  <2>1. q[a] \in T /\ q[b] \in T
    BY <1>1, <1>4, <1>5
  <2>2. \A i \in I : i \in 1..n /\ a <= i /\ i <= b
    BY <1>2, <1>4, <1>5
  <2>3. \A i \in I : /\ q[i].price \in Int
                     /\ q[a].price <= q[i].price /\ q[i].price <= q[b].price
    BY <1>0, <1>6, <2>2 DEF Sorted, n
  <2>4. \A o \in T : o.price \in Int /\ q[a].price <= o.price /\ o.price <= q[b].price
    BY <1>1, <2>3
  <2> QED
    BY <2>1, <2>4, PriceSpanIs DEF SpanOf
<1> QED
  BY <1>9, <1>11, <1>13, <1>14 DEF m, n

(* _select_seed_and_cluster with algorithm A: a tightest seed; if it is    *)
(* within the allowance, what it grows to.                                 *)
EvaluatesTo(E, q, k, s, m, w, rule) ==
  /\ s \in SeedStarts(q, q[k], m)
  /\ s \in 1..k /\ s + m - 1 \in k..Len(q)
  /\ \A t \in SeedStarts(q, q[k], m) : SpanOf(q, s, s + m - 1) <= SpanOf(q, t, t + m - 1)
  /\ E.seed = Slice(q, s, s + m - 1)
  /\ E.seedLower = q[s].price /\ E.seedUpper = q[s + m - 1].price
  /\ WithinAllowance(SpanOf(q, s, s + m - 1), w, rule) =>
       /\ E.result \in {"QUALIFIES", "STRUCTURALLY_INELIGIBLE"}
       /\ \E a \in 1..s, b \in (s + m - 1)..Len(q) :
            /\ E.members = Slice(q, a, b) /\ E.lower = q[a].price /\ E.upper = q[b].price
            /\ Fits(q, a, b, w, rule)
            /\ ~Fits(q, a - 1, b, w, rule) /\ ~Fits(q, a, b + 1, w, rule)
  /\ ~WithinAllowance(SpanOf(q, s, s + m - 1), w, rule) => E.result = "TOO_DISPERSED"

(* What EvaluateSorted computes with algorithm A.                          *)
LEMMA EvaluationOf ==
  ASSUME NEW q, NEW W, Lists(q, W), NEW k \in 1..Len(q), NEW route,
         NEW rule, RuleOK(rule), rule.algorithm = "A", rule.minimum <= Len(q)
  PROVE  \E s : EvaluatesTo(EvaluateSorted(q, q[k], route, rule), q, k, s, rule.minimum,
                            IpdaWidth(q[k]), rule)
<1> DEFINE n == Len(q)
           m == rule.minimum
           w == IpdaWidth(q[k])
           E == EvaluateSorted(q, q[k], route, rule)
<1>0. n \in Nat /\ Sorted(q) /\ m \in 1..n
  BY DEF Lists, Sorted, RuleOK
<1>1. PICK s \in SeedStarts(q, q[k], m) :
        /\ TightestSeed(q, q[k], m) = s..(s + m - 1)
        /\ \A t \in SeedStarts(q, q[k], m) : SpanOf(q, s, s + m - 1) <= SpanOf(q, t, t + m - 1)
  BY <1>0, TightestExists
<1>2. s \in 1..k /\ s + m - 1 \in k..n
  <2>1. PICK i \in s..(s + m - 1) : q[i] = q[k]
    BY DEF SeedStarts
  <2>2. s \in 1..(n - m + 1)
    BY DEF SeedStarts
  <2> HIDE DEF m, n
  <2>3. i \in 1..n
    BY <1>0, <2>1, <2>2
  <2>4. i = k
    BY <2>1, <2>3 DEF Lists, n
  <2> QED
    BY <1>0, <2>1, <2>2, <2>4
<1> DEFINE e == s + m - 1
           passes == WithinAllowance(SpanOf(q, s, e), w, rule)
           core == IF passes THEN ExpandedBounds(q, s, e, w, rule) ELSE <<s, e>>
<1>3. e \in 1..n /\ s \in 1..n /\ s <= e
  BY <1>0, <1>2
<1>4. Ends(s..e) = <<s, e>>
  <2>1. s \in s..e /\ e \in s..e /\ s..e \in SUBSET Int
    BY <1>3
  <2>2. \A i \in s..e : s <= i /\ i <= e
    BY <1>3
  <2> HIDE DEF e
  <2> QED
    BY <2>1, <2>2, EndsAre
<1>5. SeedPositions(q, q[k], rule) = s..e
  BY <1>1 DEF SeedPositions
<1>6. E = Evaluated(q, q[k], s..e, <<s, e>>, passes, core, route)
  BY <1>4, <1>5 DEF EvaluateSorted, EvaluateSeed
<1> HIDE DEF E, core, e
<1>7. /\ E.seed = Slice(q, s, e)
      /\ E.seedLower = q[s].price /\ E.seedUpper = q[e].price
      /\ ~passes => E.result = "TOO_DISPERSED"
      /\ passes => /\ E.result \in {"QUALIFIES", "STRUCTURALLY_INELIGIBLE"}
                   /\ E.members = Slice(q, core[1], core[2])
                   /\ E.lower = q[core[1]].price /\ E.upper = q[core[2]].price
  <2> HIDE DEF passes
  <2>1. /\ E.seed = {q[i] : i \in s..e}
        /\ E.seedLower = q[<<s, e>>[1]].price /\ E.seedUpper = q[<<s, e>>[2]].price
        /\ E.members = IF passes THEN {q[i] : i \in core[1]..core[2]} ELSE {}
        /\ E.lower = q[core[1]].price /\ E.upper = q[core[2]].price
        /\ ~passes => E.result = "TOO_DISPERSED"
        /\ passes => E.result \in {"QUALIFIES", "STRUCTURALLY_INELIGIBLE"}
    BY <1>6 DEF Evaluated
  <2> QED
    BY <2>1 DEF Slice
<1>8. passes =>
        \E a \in 1..s, b \in e..n :
          /\ core = <<a, b>>
          /\ Fits(q, a, b, w, rule)
          /\ ~Fits(q, a - 1, b, w, rule) /\ ~Fits(q, a, b + 1, w, rule)
  <2> SUFFICES ASSUME passes
               PROVE  \E a \in 1..s, b \in e..n :
                        /\ core = <<a, b>>
                        /\ Fits(q, a, b, w, rule)
                        /\ ~Fits(q, a - 1, b, w, rule) /\ ~Fits(q, a, b + 1, w, rule)
    OBVIOUS
  <2>1. Fits(q, s, e, w, rule)
    BY <1>0, <1>3 DEF Fits
  <2>2. core = ExpandedBounds(q, s, e, w, rule)
    BY DEF core
  <2> HIDE DEF w, passes
  <2> QED
    BY <1>0, <1>3, <2>1, <2>2, Expansion
<1>9. EvaluatesTo(E, q, k, s, m, w, rule)
  <2> HIDE DEF w, m
  <2>1. passes => \E a \in 1..s, b \in e..n :
          /\ E.members = Slice(q, a, b) /\ E.lower = q[a].price /\ E.upper = q[b].price
          /\ Fits(q, a, b, w, rule)
          /\ ~Fits(q, a - 1, b, w, rule) /\ ~Fits(q, a, b + 1, w, rule)
    BY <1>7, <1>8
  <2> QED
    BY <1>1, <1>2, <1>7, <2>1 DEF EvaluatesTo, e, m
<1> QED
  BY <1>9 DEF E

(* The core of a seed within the allowance.                                *)
LEMMA CoreOf ==
  ASSUME NEW q, NEW W, Lists(q, W), NEW k \in 1..Len(q), NEW s, NEW m \in Nat \ {0},
         NEW rule, RuleOK(rule), NEW w \in Int,
         NEW E, EvaluatesTo(E, q, k, s, m, w, rule),
         WithinAllowance(SpanOf(q, s, s + m - 1), w, rule)
  PROVE  /\ E.members = {o \in W : o.price >= E.lower /\ o.price <= E.upper}
         /\ E.seed \subseteq E.members /\ q[k] \in E.members
         /\ WithinAllowance(PriceSpan(E.members), w, rule)
         /\ \A o \in W \ E.members : ~WithinAllowance(PriceSpan(E.members \cup {o}), w, rule)
         /\ \E o \in E.members : o.price = E.lower
         /\ \E o \in E.members : o.price = E.upper
<1> DEFINE n == Len(q)
<1>0. n \in Nat /\ Sorted(q)
  BY DEF Lists, Sorted
<1>1. PICK a \in 1..s, b \in (s + m - 1)..n :
        /\ E.members = Slice(q, a, b) /\ E.lower = q[a].price /\ E.upper = q[b].price
        /\ Fits(q, a, b, w, rule)
        /\ ~Fits(q, a - 1, b, w, rule) /\ ~Fits(q, a, b + 1, w, rule)
  BY DEF EvaluatesTo
<1>2. s \in 1..k /\ s + m - 1 \in k..n /\ E.seed = Slice(q, s, s + m - 1)
  BY DEF EvaluatesTo
<1> HIDE DEF n
<1>3. a \in 1..n /\ b \in 1..n /\ a <= k /\ k <= b /\ a <= b /\ s \in a..b /\ s + m - 1 \in a..b
  BY <1>0, <1>1, <1>2
<1>4. \A i \in 1..n : q[i].price \in Int /\ q[i] \in W
  BY <1>0 DEF Sorted, Lists, n
<1>5. \A i, j \in 1..n : i <= j => q[i].price <= q[j].price
  BY <1>0 DEF Sorted, n
<1>6. WithinAllowance(SpanOf(q, a, b), w, rule)
  BY <1>1 DEF Fits
\* Beyond either end the next one does not fit.
<1>7. ASSUME NEW i \in 1..n, i < a PROVE ~WithinAllowance(SpanOf(q, i, b), w, rule)
  <2>1. a - 1 \in 1..n /\ i <= a - 1 /\ a - 1 <= b
    BY <1>0, <1>3, <1>7
  <2>2. ~WithinAllowance(SpanOf(q, a - 1, b), w, rule)
    BY <1>0, <1>1, <1>3, <2>1 DEF Fits, n
  <2>3. /\ SpanOf(q, a - 1, b) \in Nat /\ SpanOf(q, i, b) \in Nat
        /\ SpanOf(q, a - 1, b) <= SpanOf(q, i, b)
    <3> DEFINE c == a - 1
    <3>1. i \in 1..Len(q) /\ c \in 1..Len(q) /\ b \in 1..Len(q) /\ i <= c /\ c <= b /\ b <= b
      BY <1>3, <2>1 DEF n
    <3> HIDE DEF c
    <3>2. /\ SpanOf(q, c, b) \in Nat /\ SpanOf(q, i, b) \in Nat
          /\ SpanOf(q, c, b) <= SpanOf(q, i, b)
      BY <1>0, <3>1, SpanGrows
    <3> QED
      BY <3>2 DEF c
  <2> QED
    BY <2>2, <2>3, WithinLess
<1>8. ASSUME NEW i \in 1..n, b < i PROVE ~WithinAllowance(SpanOf(q, a, i), w, rule)
  <2>1. b + 1 \in 1..n /\ b + 1 <= i /\ a <= b + 1
    BY <1>0, <1>3, <1>8
  <2>2. ~WithinAllowance(SpanOf(q, a, b + 1), w, rule)
    BY <1>0, <1>1, <1>3, <2>1 DEF Fits, n
  <2>3. /\ SpanOf(q, a, b + 1) \in Nat /\ SpanOf(q, a, i) \in Nat
        /\ SpanOf(q, a, b + 1) <= SpanOf(q, a, i)
    <3> DEFINE c == b + 1
    <3>1. a \in 1..Len(q) /\ c \in 1..Len(q) /\ i \in 1..Len(q) /\ a <= a /\ a <= c /\ c <= i
      BY <1>3, <2>1 DEF n
    <3> HIDE DEF c
    <3>2. /\ SpanOf(q, a, c) \in Nat /\ SpanOf(q, a, i) \in Nat
          /\ SpanOf(q, a, c) <= SpanOf(q, a, i)
      BY <1>0, <3>1, SpanGrows
    <3> QED
      BY <3>2 DEF c
  <2> QED
    BY <2>2, <2>3, WithinLess
<1>9. ASSUME NEW i \in 1..n
      PROVE  q[i] \in Slice(q, a, b) <=> q[a].price <= q[i].price /\ q[i].price <= q[b].price
  <2>1. CASE i \in a..b
    BY <1>0, <1>3, <1>5, <2>1 DEF Slice
  <2>2. CASE i < a
    <3>1. q[i].price <= q[a].price /\ q[i].price \in Int /\ q[a].price \in Int /\ q[b].price \in Int
      BY <1>3, <1>4, <1>5, <2>2
    <3>2. q[i].price # q[a].price
      <4>1. SpanOf(q, i, b) # SpanOf(q, a, b)
        BY <1>6, <1>7, <2>2
      <4> QED
        BY <4>1 DEF SpanOf
    <3>3. q[i] \notin Slice(q, a, b)
      <4> SUFFICES ASSUME NEW j \in a..b, q[j] = q[i] PROVE FALSE
        BY DEF Slice
      <4>1. q[a].price <= q[j].price
        BY <1>0, <1>3, <1>5
      <4> QED
        BY <3>1, <3>2, <4>1
    <3> QED
      BY <3>1, <3>2, <3>3
  <2>3. CASE b < i
    <3>1. q[b].price <= q[i].price /\ q[i].price \in Int /\ q[a].price \in Int /\ q[b].price \in Int
      BY <1>3, <1>4, <1>5, <2>3
    <3>2. q[i].price # q[b].price
      <4>1. SpanOf(q, a, i) # SpanOf(q, a, b)
        BY <1>6, <1>8, <2>3
      <4> QED
        BY <4>1 DEF SpanOf
    <3>3. q[i] \notin Slice(q, a, b)
      <4> SUFFICES ASSUME NEW j \in a..b, q[j] = q[i] PROVE FALSE
        BY DEF Slice
      <4>0. j \in 1..n /\ j <= b
        BY <1>0, <1>3
      <4>1. q[j].price <= q[b].price
        BY <1>3, <1>5, <4>0
      <4> QED
        BY <3>1, <3>2, <4>1
    <3> QED
      BY <3>1, <3>2, <3>3
  <2> QED
    BY <1>0, <1>3, <2>1, <2>2, <2>3
<1>10. \A o \in W : \E i \in 1..n : q[i] = o
  BY DEF Lists, n
<1>11. Slice(q, a, b) \subseteq W
  BY <1>0, <1>3, <1>4 DEF Slice
<1>12. E.members = {o \in W : o.price >= E.lower /\ o.price <= E.upper}
  <2>1. \A o \in W : o \in Slice(q, a, b) <=> q[a].price <= o.price /\ o.price <= q[b].price
    BY <1>9, <1>10
  <2>2. \A o \in W : o.price \in Int
    BY <1>4, <1>10
  <2>3. q[a].price \in Int /\ q[b].price \in Int
    BY <1>3, <1>4
  <2>4. \A o \in W : o \in Slice(q, a, b) <=> o.price >= q[a].price /\ o.price <= q[b].price
    BY <2>1, <2>2, <2>3
  <2> QED
    BY <1>1, <1>11, <2>4
<1>13. E.seed \subseteq E.members /\ q[k] \in E.members
  <2>1. \A i \in s..(s + m - 1) : i \in a..b
    BY <1>0, <1>3
  <2>2. k \in a..b
    BY <1>3
  <2> QED
    BY <1>1, <1>2, <2>1, <2>2 DEF Slice
<1>14. WithinAllowance(PriceSpan(E.members), w, rule)
  BY <1>0, <1>1, <1>3, <1>6, SliceSpan DEF n
<1>15. ASSUME NEW o \in W \ E.members
       PROVE  ~WithinAllowance(PriceSpan(E.members \cup {o}), w, rule)
  <2> DEFINE T == Slice(q, a, b) \cup {o}
  <2>1. PICK i \in 1..n : q[i] = o
    BY <1>10
  <2>2. i < a \/ b < i
    <3>1. i \notin a..b
      BY <1>1, <1>15, <2>1 DEF Slice
    <3> QED
      BY <1>0, <1>3, <3>1
  <2>3. ASSUME NEW p \in T PROVE \E j \in 1..n : p = q[j] /\ (j \in a..b \/ j = i)
    BY <1>0, <1>3, <2>1, <2>3 DEF Slice
  <2>4. q[a] \in T /\ q[b] \in T /\ q[i] \in T
    BY <1>0, <1>3, <2>1 DEF Slice
  <2> HIDE DEF T
  <2>5. \A p \in T : p.price \in Int
    BY <1>4, <2>3
  <2>6. CASE i < a
    <3>1. ASSUME NEW p \in T PROVE q[i].price <= p.price /\ p.price <= q[b].price
      <4>1. PICK j \in 1..n : p = q[j] /\ (j \in a..b \/ j = i)
        BY <2>3, <3>1
      <4>2. i <= j /\ j <= b
        BY <1>0, <1>3, <2>6, <4>1
      <4> QED
        BY <1>3, <1>5, <4>1, <4>2
    <3>2. PriceSpan(T) = SpanOf(q, i, b)
      BY <2>4, <2>5, <3>1, PriceSpanIs DEF SpanOf
    <3> QED
      BY <1>1, <1>7, <2>6, <3>2 DEF T
  <2>7. CASE b < i
    <3>1. ASSUME NEW p \in T PROVE q[a].price <= p.price /\ p.price <= q[i].price
      <4>1. PICK j \in 1..n : p = q[j] /\ (j \in a..b \/ j = i)
        BY <2>3, <3>1
      <4>2. a <= j /\ j <= i
        BY <1>0, <1>3, <2>7, <4>1
      <4> QED
        BY <1>3, <1>5, <4>1, <4>2
    <3>2. PriceSpan(T) = SpanOf(q, a, i)
      BY <2>4, <2>5, <3>1, PriceSpanIs DEF SpanOf
    <3> QED
      BY <1>1, <1>8, <2>7, <3>2 DEF T
  <2> QED
    BY <2>2, <2>6, <2>7
<1>16. q[a] \in E.members /\ q[b] \in E.members
  BY <1>0, <1>1, <1>3 DEF Slice
<1> QED
  BY <1>1, <1>12, <1>13, <1>14, <1>15, <1>16

------------------------------------------------------------------------------
(* The replay order on observations with ids of their own.                 *)
LEMMA PacketsOrdered ==
  ASSUME NEW S, Packets(S)
  PROVE  /\ \A a \in S : ~Before(a, a)
         /\ \A a, b \in S : ~(Before(a, b) /\ Before(b, a))
         /\ \A a, b, c \in S : Before(a, b) /\ Before(b, c) => Before(a, c)
         /\ \A a, b \in S : a # b => Before(a, b) \/ Before(b, a)
<1>1. \A a \in S : a.at \in Int /\ a.id \in Int
  BY DEF Packets, Packet
<1>2. \A a, b \in S : a.id = b.id => a = b
  BY DEF Packets
<1> QED
  BY <1>1, <1>2 DEF Before

(* A part of a set of observations is one.                                 *)
LEMMA PartsOfPackets ==
  ASSUME NEW S, Packets(S), NEW T \in SUBSET S
  PROVE  Packets(T)
BY FS_Subset DEF Packets

(* Of a finite set one observation is the newest.                          *)
LEMMA NewestOfPackets ==
  ASSUME NEW S, Packets(S), S # {}
  PROVE  /\ NewestOf(S) \in S
         /\ \A p \in S \ {NewestOf(S)} : Before(p, NewestOf(S))
         /\ \A p \in S : ~Before(NewestOf(S), p)
         /\ \A o \in S : (\A p \in S \ {o} : Before(p, o)) => NewestOf(S) = o
<1> DEFINE n == Cardinality(S)
           Less == {p \in S \X S : Before(p[1], p[2])}
           rank == [a \in S |-> Cardinality({b \in S : <<b, a>> \in Less})]
<1>1. IsFiniteSet(S) /\ n \in Nat /\ n # 0
  BY FS_CardinalityType, FS_EmptySet DEF Packets
<1>2. \A a, b \in S : <<a, b>> \in Less <=> Before(a, b)
  OBVIOUS
<1>3. \A a \in S : <<a, a>> \notin Less
  BY <1>2, PacketsOrdered
<1>4. \A a, b, c \in S : <<a, b>> \in Less /\ <<b, c>> \in Less => <<a, c>> \in Less
  BY <1>2, PacketsOrdered
<1>5. \A a, b \in S : a # b => <<a, b>> \in Less \/ <<b, a>> \in Less
  BY <1>2, PacketsOrdered
<1> HIDE DEF Less
<1>6. /\ \A a \in S : rank[a] \in Nat /\ rank[a] < n
      /\ \A a, b \in S : <<a, b>> \in Less <=> rank[a] < rank[b]
      /\ \A i \in 1..n : \E a \in S : rank[a] = i - 1
  BY <1>1, <1>3, <1>4, <1>5, Ranks
<1> HIDE DEF rank, n
<1>7. PICK o \in S : rank[o] = n - 1
  <2>1. n \in 1..n
    BY <1>1
  <2> QED
    BY <1>6, <2>1
<1>8. ASSUME NEW p \in S \ {o} PROVE Before(p, o)
  <2>1. ~(rank[o] < rank[p])
    BY <1>1, <1>6, <1>7
  <2>2. <<p, o>> \in Less
    BY <1>5, <1>6, <2>1
  <2> QED
    BY <1>2, <2>2
<1>9. NewestOf(S) \in S /\ \A p \in S \ {NewestOf(S)} : Before(p, NewestOf(S))
  BY <1>8 DEF NewestOf
<1>10. \A x \in S : (\A p \in S \ {x} : Before(p, x)) => NewestOf(S) = x
  BY <1>9, PacketsOrdered
<1>11. \A p \in S : ~Before(NewestOf(S), p)
  BY <1>9, PacketsOrdered
<1> QED
  BY <1>9, <1>10, <1>11

(* The newest observation is retained.                                     *)
LEMMA WindowNewest ==
  ASSUME NEW S, Packets(S), S # {}
  PROVE  /\ LatestRouteWindow(S) \in SUBSET S
         /\ Packets(LatestRouteWindow(S))
         /\ NewestOf(S) \in LatestRouteWindow(S)
         /\ NewestOf(LatestRouteWindow(S)) = NewestOf(S)
<1> DEFINE o == NewestOf(S)
           W == LatestRouteWindow(S)
<1>1. W \in SUBSET S
  BY DEF LatestRouteWindow
<1>2. Packets(W)
  BY <1>1, PartsOfPackets
<1>3. o \in S /\ (\A p \in S \ {o} : Before(p, o)) /\ \A p \in S : ~Before(o, p)
  BY NewestOfPackets
<1>4. o \in W
  <2>1. {p \in S : Before(o, p)} = {}
    BY <1>3
  <2>2. Cardinality({p \in S : Before(o, p)}) = 0
    BY <2>1, FS_EmptySet
  <2> HIDE DEF o
  <2>3. Cardinality({p \in S : Before(o, p)}) < RouteWindow
    BY <2>2, RouteWindowAssumption
  <2> QED
    BY <1>3, <2>3 DEF LatestRouteWindow
<1> HIDE DEF o, W
<1>5. NewestOf(W) = o
  BY <1>1, <1>2, <1>3, <1>4, NewestOfPackets
<1> QED
  BY <1>1, <1>2, <1>4, <1>5 DEF o, W
------------------------------------------------------------------------------
(* What algorithm A says of a window W whose newest observation is o.      *)
Verdict(E, W, o, rule) ==
  LET groups == {T \in SUBSET W : Cardinality(T) = rule.minimum /\ o \in T}
      width  == IpdaWidth(o)
  IN  /\ E.seed \in groups
      /\ \A T \in groups : /\ PriceSpan(T) \in Int /\ PriceSpan(E.seed) \in Int
                           /\ PriceSpan(E.seed) <= PriceSpan(T)
      /\ Concentrated(E.result) <=> WithinAllowance(PriceSpan(E.seed), width, rule)
      /\ Concentrated(E.result) =>
           /\ E.members = {x \in W : x.price >= E.lower /\ x.price <= E.upper}
           /\ E.seed \subseteq E.members /\ o \in E.members
           /\ WithinAllowance(PriceSpan(E.members), width, rule)
           /\ \A x \in W \ E.members :
                ~WithinAllowance(PriceSpan(E.members \cup {x}), width, rule)
           /\ \E x \in E.members : x.price = E.lower
           /\ \E x \in E.members : x.price = E.upper
      /\ \E x \in E.seed : x.price = E.seedLower
      /\ \E x \in E.seed : x.price = E.seedUpper

(* What algorithm A says of any window that is large enough.               *)
LEMMA VerdictOf ==
  ASSUME NEW W, Packets(W), NEW o \in W, NEW route,
         NEW rule, RuleOK(rule), rule.algorithm = "A", rule.minimum <= Cardinality(W)
  PROVE  Verdict(EvaluateSorted(PriceSorted(W), o, route, rule), W, o, rule)
<1> DEFINE q == PriceSorted(W)
           n == Len(q)
           m == rule.minimum
           w == IpdaWidth(o)
           E == EvaluateSorted(q, o, route, rule)
           groups == {T \in SUBSET W : Cardinality(T) = m /\ o \in T}
<1>1. Lists(q, W)
  BY PriceSortedLists
<1> HIDE DEF q
<1>2. n = Cardinality(W) /\ n \in Nat /\ Sorted(q)
  BY <1>1 DEF Lists, Sorted
<1>3. PICK k \in 1..n : q[k] = o
  BY <1>1 DEF Lists
<1>4. PICK s : EvaluatesTo(E, q, k, s, m, w, rule)
  <2>1. rule.minimum <= Len(q)
    BY <1>2
  <2> HIDE DEF n, E
  <2>2. \E s : EvaluatesTo(EvaluateSorted(q, q[k], route, rule), q, k, s, rule.minimum,
                           IpdaWidth(q[k]), rule)
    BY <1>1, <1>3, <2>1, EvaluationOf DEF n
  <2> QED
    BY <1>3, <2>2 DEF E
<1> HIDE DEF E
<1> DEFINE e == s + m - 1
<1>5. /\ s \in SeedStarts(q, o, m) /\ s \in 1..k /\ e \in k..n
      /\ \A t \in SeedStarts(q, o, m) : SpanOf(q, s, e) <= SpanOf(q, t, t + m - 1)
      /\ E.seed = Slice(q, s, e)
      /\ E.seedLower = q[s].price /\ E.seedUpper = q[e].price
  BY <1>3, <1>4 DEF EvaluatesTo
<1>6. m \in Nat \ {0} /\ w \in Int
  <2>1. w \in Int
    BY DEF Packets, Packet, IpdaWidth
  <2> QED
    BY <2>1 DEF RuleOK
<1>7. s \in 1..n /\ e \in 1..n /\ s <= e /\ k \in s..e
  BY <1>2, <1>3, <1>5
<1>8. E.seed \in groups
  <2>1. s..e \in SUBSET (1..n)
    BY <1>2, <1>7
  <2>2. Cardinality(Slice(q, s, e)) = Cardinality(s..e)
    BY <1>1, <2>1, PlacesCount DEF Slice
  <2>3. Cardinality(s..e) = e - s + 1
    BY <1>7, FS_Interval
  <2>4. e - s + 1 = m
    BY <1>6, <1>7
  <2>5. Slice(q, s, e) \in SUBSET W
    BY <1>1, <2>1 DEF Slice, Lists
  <2>6. o \in Slice(q, s, e)
    BY <1>3, <1>7 DEF Slice
  <2> HIDE DEF e
  <2> QED
    BY <1>5, <2>2, <2>3, <2>4, <2>5, <2>6
<1>9. PriceSpan(E.seed) = SpanOf(q, s, e) /\ SpanOf(q, s, e) \in Nat
  <2> HIDE DEF e
  <2>1. s \in 1..Len(q) /\ e \in 1..Len(q)
    BY <1>7
  <2>2. s <= s /\ e <= e
    BY <1>2, <1>7
  <2> HIDE DEF n
  <2>3. PriceSpan(Slice(q, s, e)) = SpanOf(q, s, e)
    BY <1>2, <1>7, <2>1, SliceSpan
  <2>4. SpanOf(q, s, e) \in Nat
    BY <1>2, <1>7, <2>1, <2>2, SpanGrows
  <2> QED
    BY <1>5, <2>3, <2>4
<1>10. ASSUME NEW T \in groups
       PROVE  PriceSpan(T) \in Int /\ PriceSpan(E.seed) <= PriceSpan(T)
  <2>1. T \in SUBSET W /\ q[k] \in T /\ Cardinality(T) = m
    BY <1>3
  <2>2. PICK t \in SeedStarts(q, q[k], Cardinality(T)) :
          /\ SpanOf(q, t, t + Cardinality(T) - 1) \in Int /\ PriceSpan(T) \in Int
          /\ SpanOf(q, t, t + Cardinality(T) - 1) <= PriceSpan(T)
    BY <1>1, <1>3, <2>1, GroupHasWindow
  <2>3. t \in SeedStarts(q, o, m) /\ SpanOf(q, t, t + m - 1) \in Int
        /\ SpanOf(q, t, t + m - 1) <= PriceSpan(T)
    BY <1>3, <2>1, <2>2
  <2>4. SpanOf(q, s, e) <= SpanOf(q, t, t + m - 1)
    BY <1>5, <2>3
  <2> HIDE DEF e, groups
  <2> QED
    BY <1>9, <2>2, <2>3, <2>4
<1> DEFINE within == WithinAllowance(SpanOf(q, s, e), w, rule)
<1>11. Concentrated(E.result) <=> within
  BY <1>4 DEF EvaluatesTo, Concentrated
<1>12. within =>
         /\ E.members = {x \in W : x.price >= E.lower /\ x.price <= E.upper}
         /\ E.seed \subseteq E.members /\ o \in E.members
         /\ WithinAllowance(PriceSpan(E.members), w, rule)
         /\ \A x \in W \ E.members :
              ~WithinAllowance(PriceSpan(E.members \cup {x}), w, rule)
         /\ \E x \in E.members : x.price = E.lower
         /\ \E x \in E.members : x.price = E.upper
  <2> HIDE DEF w, m
  <2> QED
    BY <1>1, <1>3, <1>4, <1>6, CoreOf
<1>13. (\E x \in E.seed : x.price = E.seedLower) /\ (\E x \in E.seed : x.price = E.seedUpper)
  <2>1. q[s] \in Slice(q, s, e) /\ q[e] \in Slice(q, s, e)
    BY <1>7 DEF Slice
  <2> QED
    BY <1>5, <2>1
<1> HIDE DEF w, m, e
<1>14. Verdict(E, W, o, rule)
  <2>1. PriceSpan(E.seed) \in Int
    BY <1>9
  <2>2. Concentrated(E.result) <=> WithinAllowance(PriceSpan(E.seed), w, rule)
    BY <1>9, <1>11
  <2> QED
    BY <1>8, <1>10, <1>11, <1>12, <1>13, <2>1, <2>2 DEF Verdict, w, m
<1> QED
  BY <1>14 DEF E, q

(* A seed within an allowance that is at least as generous.                *)
LEMMA WiderAllows ==
  ASSUME NEW r1, RuleOK(r1), NEW r2, RuleOK(r2), r1.num * r2.den <= r2.num * r1.den,
         NEW w \in Nat, NEW x \in Int, WithinAllowance(x, w, r1)
  PROVE  WithinAllowance(x, w, r2)
<1> DEFINE n1 == r1.num
           d1 == r1.den
           n2 == r2.num
           d2 == r2.den
<1>1. n1 \in Nat /\ n2 \in Nat /\ d1 \in Nat \ {0} /\ d2 \in Nat \ {0}
  BY DEF RuleOK
<1>2. x * d1 <= n1 * w /\ n1 * d2 <= n2 * d1
  BY DEF WithinAllowance
<1> HIDE DEF n1, n2, d1, d2
<1>3. (x * d1) * d2 <= (n1 * w) * d2
  <2>1. x * d1 \in Int /\ n1 * w \in Int /\ d2 \in Nat
    BY <1>1
  <2> QED
    BY <1>2, <2>1, ProductGrows
<1>4. (n1 * d2) * w <= (n2 * d1) * w
  <2>1. n1 * d2 \in Int /\ n2 * d1 \in Int
    BY <1>1
  <2> QED
    BY <1>2, <2>1, ProductGrows
<1>5. (x * d2) * d1 <= (n2 * w) * d1
  <2>1. (x * d1) * d2 = (x * d2) * d1 /\ (n1 * w) * d2 = (n1 * d2) * w
    BY <1>1
  <2>2. (n2 * d1) * w = (n2 * w) * d1
    BY <1>1
  <2> DEFINE a == (x * d1) * d2
             b == (n1 * w) * d2
             c == (n2 * d1) * w
  <2>3. a <= b /\ b <= c /\ a \in Int /\ b \in Int /\ c \in Int
    BY <1>1, <1>3, <1>4, <2>1
  <2>4. (x * d2) * d1 = a /\ (n2 * w) * d1 = c
    BY <2>1, <2>2
  <2> HIDE DEF a, b, c
  <2> QED
    BY <2>3, <2>4
<1>6. x * d2 <= n2 * w
  <2> DEFINE y == x * d2
             z == n2 * w
  <2>1. y \in Int /\ z \in Int
    BY <1>1
  <2>2. y * d1 <= z * d1
    BY <1>5
  <2> HIDE DEF y, z
  <2>3. ~(z < y)
    <3> SUFFICES ASSUME z < y PROVE FALSE
      OBVIOUS
    <3>1. (z + 1) * d1 <= y * d1
      BY <1>1, <2>1, ProductGrows
    <3>2. (z + 1) * d1 = z * d1 + d1
      BY <1>1, <2>1
    <3> QED
      BY <1>1, <2>1, <2>2, <3>1, <3>2
  <2> QED
    BY <2>1, <2>3 DEF y, z
<1> QED
  BY <1>6 DEF n2, d2, WithinAllowance

(* Algorithm B's seed is a group of the required size as well.             *)
LEMMA ChronologicalGroup ==
  ASSUME NEW q, NEW W, Packets(W), Lists(q, W), NEW k \in 1..Len(q),
         \A p \in W : ~Before(q[k], p), NEW m \in 1..Len(q)
  PROVE  LET J == ChronologicalSeed(q, m)
         IN  /\ J \in SUBSET (1..Len(q)) /\ k \in J
             /\ Cardinality({q[i] : i \in J}) = m
<1> DEFINE S == 1..Len(q)
           Less == {p \in S \X S : Before(q[p[2]], q[p[1]])}
           rank == [i \in S |-> Cardinality({j \in S : <<j, i>> \in Less})]
           J == ChronologicalSeed(q, m)
<1>1. Len(q) \in Nat /\ IsFiniteSet(S) /\ Cardinality(S) = Len(q)
  BY FS_Interval DEF Lists, Sorted
<1>2. \A i \in S : q[i] \in W
  BY DEF Lists
<1>3. \A i, j \in S : <<i, j>> \in Less <=> Before(q[j], q[i])
  OBVIOUS
<1>4. \A i, j \in S : q[i] = q[j] => i = j
  BY DEF Lists
<1>5. \A i \in S : <<i, i>> \notin Less
  BY <1>2, <1>3, PacketsOrdered
<1>6. \A a, b, c \in S : <<a, b>> \in Less /\ <<b, c>> \in Less => <<a, c>> \in Less
  BY <1>2, <1>3, PacketsOrdered
<1>7. \A a, b \in S : a # b => <<a, b>> \in Less \/ <<b, a>> \in Less
  BY <1>2, <1>3, <1>4, PacketsOrdered
<1>8. \A i \in S : {j \in S : <<j, i>> \in Less} = {j \in S : Before(q[i], q[j])}
  BY <1>3
<1>k. k \in S /\ {j \in S : Before(q[k], q[j])} = {}
  BY <1>2
<1> HIDE DEF Less, S
<1>9. /\ \A i \in S : rank[i] \in Nat /\ rank[i] < Cardinality(S)
      /\ \A a, b \in S : <<a, b>> \in Less <=> rank[a] < rank[b]
      /\ \A i \in 1..Cardinality(S) : \E a \in S : rank[a] = i - 1
  BY <1>1, <1>5, <1>6, <1>7, Ranks
<1>10. \A i \in S : rank[i] = Cardinality({j \in S : Before(q[i], q[j])})
  BY <1>8
<1>11. J = {i \in S : rank[i] < m}
  BY <1>10 DEF ChronologicalSeed, S
<1>12. k \in J
  <2>1. rank[k] = 0
    BY <1>k, <1>10, FS_EmptySet
  <2> HIDE DEF J, rank
  <2>2. m \in Nat \ {0}
    BY <1>1
  <2> QED
    BY <1>k, <1>11, <2>1, <2>2
<1> HIDE DEF rank
<1> DEFINE f == [i \in J |-> rank[i] + 1]
<1>13. J \in SUBSET S /\ m \in Nat
  BY <1>1, <1>11
<1>14. \A i \in J : rank[i] \in Nat /\ rank[i] < m
  BY <1>9, <1>11
<1> HIDE DEF J
<1>15. f \in [J -> 1..m]
  BY <1>13, <1>14
<1>16. ASSUME NEW a \in J, NEW b \in J, f[a] = f[b] PROVE a = b
  <2>1. rank[a] = rank[b] /\ rank[a] \in Nat
    BY <1>14, <1>16
  <2>2. ~(rank[a] < rank[b]) /\ ~(rank[b] < rank[a])
    BY <2>1
  <2> QED
    BY <1>7, <1>9, <1>13, <2>2
<1>17. ASSUME NEW i \in 1..m PROVE \E a \in J : f[a] = i
  <2>1. i \in 1..Cardinality(S)
    BY <1>1
  <2>2. PICK a \in S : rank[a] = i - 1
    BY <1>9, <2>1
  <2>3. a \in J
    BY <1>11, <1>13, <2>2
  <2> QED
    BY <1>13, <2>2, <2>3
<1>18. f \in Bijection(J, 1..m)
  <2> HIDE DEF f
  <2> QED
    BY <1>15, <1>16, <1>17, Fun_IsBij
<1>19. Cardinality(J) = m
  <2>1. ExistsBijection(J, 1..m)
    BY <1>18 DEF ExistsBijection
  <2>2. IsFiniteSet(J)
    BY <1>1, <1>13, FS_Subset
  <2>3. Cardinality(1..m) = m
    BY <1>13, FS_Interval
  <2>4. Cardinality(J) = Cardinality(1..m)
    BY <2>1, <2>2, FS_Bijection
  <2> QED
    BY <2>3, <2>4
<1>20. J \in SUBSET (1..Len(q))
  BY <1>13 DEF S
<1>21. Cardinality({q[i] : i \in J}) = m
  BY <1>19, <1>20, PlacesCount
<1> QED
  BY <1>12, <1>20, <1>21 DEF J

(* What the chronological scenario finds, the tightest seed finds.         *)
LEMMA ChronologicalIsGroup ==
  ASSUME NEW W, Packets(W), NEW o \in W, \A p \in W : ~Before(o, p), NEW route,
         NEW rule, RuleOK(rule), rule.algorithm = "B", rule.minimum <= Cardinality(W),
         Concentrated(EvaluateSorted(PriceSorted(W), o, route, rule).result)
  PROVE  \E T \in SUBSET W : /\ Cardinality(T) = rule.minimum /\ o \in T
                             /\ WithinAllowance(PriceSpan(T), IpdaWidth(o), rule)
<1> DEFINE q == PriceSorted(W)
           m == rule.minimum
           J == ChronologicalSeed(q, m)
           T == {q[i] : i \in J}
<1>1. Lists(q, W)
  BY PriceSortedLists
<1> HIDE DEF q
<1>2. Len(q) = Cardinality(W) /\ Len(q) \in Nat /\ Sorted(q)
  BY <1>1 DEF Lists, Sorted
<1>3. PICK k \in 1..Len(q) : q[k] = o
  BY <1>1 DEF Lists
<1>4. m \in 1..Len(q)
  BY <1>2 DEF RuleOK
<1>5. J \in SUBSET (1..Len(q)) /\ k \in J /\ Cardinality(T) = m
  <2> HIDE DEF m
  <2>1. \A p \in W : ~Before(q[k], p)
    BY <1>3
  <2> QED
    BY <1>1, <1>3, <1>4, <2>1, ChronologicalGroup
<1>6. PICK a \in J : \A i \in J : a <= i
  BY <1>2, <1>5, LeastAndGreatest
<1>7. PICK b \in J : \A i \in J : i <= b
  BY <1>2, <1>5, LeastAndGreatest
<1>8. Ends(J) = <<a, b>>
  <2>1. J \in SUBSET Int
    BY <1>2, <1>5
  <2> HIDE DEF J
  <2> QED
    BY <1>6, <1>7, <2>1, EndsAre
<1>9. WithinAllowance(SpanOf(q, a, b), IpdaWidth(o), rule)
  <2>1. SeedPositions(q, o, rule) = J
    BY DEF SeedPositions
  <2> HIDE DEF J
  <2>2. EvaluateSorted(q, o, route, rule) = EvaluateSeed(q, o, J, <<a, b>>, route, rule)
    BY <1>8, <2>1 DEF EvaluateSorted
  <2> DEFINE passes == WithinAllowance(SpanOf(q, a, b), IpdaWidth(o), rule)
             core == IF passes THEN ExpandedBounds(q, a, b, IpdaWidth(o), rule) ELSE <<a, b>>
  <2>3. EvaluateSeed(q, o, J, <<a, b>>, route, rule)
          = Evaluated(q, o, J, <<a, b>>, passes, core, route)
    BY DEF EvaluateSeed
  <2> HIDE DEF passes, core
  <2>4. ~passes => Evaluated(q, o, J, <<a, b>>, passes, core, route).result = "TOO_DISPERSED"
    BY DEF Evaluated
  <2>5. Concentrated(EvaluateSorted(q, o, route, rule).result)
    BY DEF q
  <2> QED
    BY <2>2, <2>3, <2>4, <2>5 DEF passes, Concentrated
<1>10. PriceSpan(T) = SpanOf(q, a, b)
  <2>1. q[a] \in T /\ q[b] \in T
    BY <1>6, <1>7
  <2>2. \A i \in J : i \in 1..Len(q) /\ a <= i /\ i <= b
    BY <1>5, <1>6, <1>7
  <2>3. \A i \in J : /\ q[i].price \in Int
                     /\ q[a].price <= q[i].price /\ q[i].price <= q[b].price
    BY <1>2, <1>6, <1>7, <2>2 DEF Sorted
  <2>4. \A x \in T : x.price \in Int /\ q[a].price <= x.price /\ x.price <= q[b].price
    BY <2>3
  <2> HIDE DEF T, J
  <2> QED
    BY <2>1, <2>4, PriceSpanIs DEF SpanOf
<1>11. T \in SUBSET W /\ o \in T
  BY <1>1, <1>3, <1>5 DEF Lists
<1> HIDE DEF T
<1> QED
  BY <1>5, <1>9, <1>10, <1>11

------------------------------------------------------------------------------
(* The evidence of the route: observations numbered in order of arrival,   *)
(* each with a frame of positive width.                                    *)
EvidenceInv ==
  /\ IsFiniteSet(evidence)
  /\ \A o \in evidence : /\ o \in Packet /\ o.route = Route /\ o.low < o.high
                         /\ o.id \in 1..Cardinality(evidence)
  /\ \A a, b \in evidence : a.id = b.id => a = b

(* The invariant of the growing evidence.                                  *)
LEMMA EvidenceInvariant == EvidenceSpec => []EvidenceInv
<1>1. EvidenceInit => EvidenceInv
  BY FS_EmptySet DEF EvidenceInit, EvidenceInv
<1>2. ASSUME EvidenceInv, [EvidenceNext]_evidence PROVE EvidenceInv'
  <2>1. CASE UNCHANGED evidence
    BY <1>2, <2>1 DEF EvidenceInv
  <2>2. CASE EvidenceNext
    <3>1. PICK price \in Prices, frame \in Frames : Arrive(price, frame)
      BY <2>2 DEF EvidenceNext
    <3> DEFINE n == Cardinality(evidence)
               o == [id |-> n + 1, at |-> n + 1, route |-> Route, price |-> price, tick |-> 1,
                     low |-> frame[1], high |-> frame[2]]
    <3>2. evidence' = evidence \cup {o} /\ IsFiniteSet(evidence) /\ n \in Nat
      BY <1>2, <3>1, FS_CardinalityType DEF Arrive, EvidenceInv
    <3>3. o \in Packet /\ o.route = Route /\ o.low < o.high /\ o.id = n + 1
      <4>1. frame[1] \in Int /\ frame[2] \in Int /\ frame[1] < frame[2] /\ price \in Int
            /\ Route \in Routes
        BY EvidenceAssumption
      <4>2. n + 1 \in Int
        BY <3>2
      <4> HIDE DEF n
      <4> QED
        BY <4>1, <4>2 DEF Packet
    <3>4. \A a \in evidence : a.id \in 1..n
      BY <1>2 DEF EvidenceInv
    <3> HIDE DEF o
    <3>5. o \notin evidence
      BY <3>2, <3>3, <3>4
    <3>6. IsFiniteSet(evidence') /\ Cardinality(evidence') = n + 1
      BY <3>2, <3>5, FS_AddElement
    <3> HIDE DEF n
    <3>7. \A a \in evidence' : /\ a \in Packet /\ a.route = Route /\ a.low < a.high
                               /\ a.id \in 1..Cardinality(evidence')
      BY <1>2, <3>2, <3>3, <3>4, <3>6 DEF EvidenceInv
    <3>8. \A a, b \in evidence' : a.id = b.id => a = b
      BY <1>2, <3>2, <3>3, <3>4 DEF EvidenceInv
    <3> QED
      BY <3>6, <3>7, <3>8 DEF EvidenceInv
  <2> QED
    BY <1>2, <2>1, <2>2
<1> QED
  BY <1>1, <1>2, PTL DEF EvidenceSpec

\* A rule of the specification.
LEMMA RulesAreOK ==
  /\ RuleOK(Rule) /\ Rule.algorithm = "A"
  /\ RuleOK(WiderRule) /\ WiderRule.algorithm = "A" /\ WiderRule.minimum = Rule.minimum
  /\ RuleOK(ChronologicalRule) /\ ChronologicalRule.algorithm = "B"
  /\ ChronologicalRule.minimum = Rule.minimum
  /\ ChronologicalRule.num = Rule.num /\ ChronologicalRule.den = Rule.den
<1>1. /\ RuleOK(Rule) /\ Rule.algorithm = "A"
      /\ RuleOK(WiderRule) /\ WiderRule.algorithm = "A" /\ WiderRule.minimum = Rule.minimum
  BY RuleAssumption DEF RuleOK, IsAllowance
<1>2. /\ ChronologicalRule.algorithm = "B" /\ ChronologicalRule.minimum = Rule.minimum
      /\ ChronologicalRule.num = Rule.num /\ ChronologicalRule.den = Rule.den
  BY RuleAssumption
<1> QED
  BY <1>1, <1>2 DEF RuleOK

(* What the definitions of the specification are of.                       *)
LEMMA EvaluationIs ==
  ASSUME EvidenceInv, evidence # {}
  PROVE  /\ Packets(Retained) /\ Incoming \in Retained /\ NewestOf(Retained) = Incoming
         /\ \A p \in Retained : ~Before(Incoming, p)
         /\ Cardinality(Retained) \in Nat
         /\ IpdaWidth(Incoming) \in Nat
         /\ \A rule : EvaluateConcentration(evidence, Route, rule) =
              IF Cardinality(Retained) < rule.minimum THEN NoEvaluation
              ELSE EvaluateSorted(PriceSorted(Retained), Incoming, Route, rule)
<1>1. Packets(evidence)
  BY DEF EvidenceInv, Packets
<1>2. /\ Packets(Retained) /\ Incoming \in Retained /\ NewestOf(Retained) = Incoming
      /\ Retained \in SUBSET evidence
  BY <1>1, WindowNewest DEF Retained, Incoming
<1>3. \A p \in evidence : ~Before(Incoming, p)
  BY <1>1, NewestOfPackets DEF Incoming
<1>4. RouteDeque(evidence, Route) = Retained
  <2>1. {o \in evidence : o.route = Route} = evidence
    BY DEF EvidenceInv
  <2> QED
    BY <2>1 DEF RouteDeque, Retained
<1>5. IpdaWidth(Incoming) \in Nat
  <2>1. Incoming.low \in Int /\ Incoming.high \in Int /\ Incoming.low < Incoming.high
    BY <1>2 DEF EvidenceInv, Packet
  <2> QED
    BY <2>1 DEF IpdaWidth
<1>6. Cardinality(Retained) \in Nat
  BY <1>2, FS_CardinalityType DEF Packets
<1> QED
  BY <1>2, <1>3, <1>4, <1>5, <1>6 DEF EvaluateConcentration

(* The verdict on the evidence of the specification.                       *)
LEMMA VerdictOfRule ==
  ASSUME EvidenceInv, evidence # {}, NEW rule, RuleOK(rule), rule.algorithm = "A",
         rule.minimum <= Cardinality(Retained)
  PROVE  Verdict(EvaluateConcentration(evidence, Route, rule), Retained, Incoming, rule)
<1>1. ~(Cardinality(Retained) < rule.minimum)
  BY EvaluationIs DEF RuleOK
<1>2. Verdict(EvaluateSorted(PriceSorted(Retained), Incoming, Route, rule),
              Retained, Incoming, rule)
  BY EvaluationIs, VerdictOf
<1> QED
  BY <1>1, <1>2, EvaluationIs

\* With too little evidence there is no group and no concentration.
LEMMA TooFew ==
  ASSUME EvidenceInv, evidence # {}, NEW rule, RuleOK(rule),
         ~(rule.minimum <= Cardinality(Retained))
  PROVE  /\ EvaluateConcentration(evidence, Route, rule) = NoEvaluation
         /\ ~Concentrated(NoEvaluation.result)
         /\ Groups(rule.minimum) = {}
<1>1. Cardinality(Retained) < rule.minimum
  BY EvaluationIs DEF RuleOK
<1>2. ASSUME NEW T \in SUBSET Retained PROVE Cardinality(T) # rule.minimum
  <2>1. /\ Cardinality(T) \in Nat
        /\ Cardinality(T) <= Cardinality(Retained)
    BY EvaluationIs, FS_Subset, FS_CardinalityType DEF Packets
  <2> QED
    BY <1>1, <2>1, EvaluationIs DEF RuleOK
<1> QED
  BY <1>1, <1>2, EvaluationIs DEF NoEvaluation, Concentrated, Groups

(* SeedIsTightest: among all groups of the required size that hold the     *)
(* newest observation, contiguous in price or not, none spans less than    *)
(* the seed _select_seed_and_cluster chooses.                              *)
THEOREM SeedIsTightestTheorem == EvidenceSpec => []SeedIsTightest
<1>1. ASSUME EvidenceInv PROVE SeedIsTightest
  <2> SUFFICES ASSUME Evaluation.result # "INSUFFICIENT_OBSERVATIONS"
               PROVE  /\ Evaluation.seed \in Groups(Rule.minimum)
                      /\ \A T \in Groups(Rule.minimum) :
                           PriceSpan(Evaluation.seed) <= PriceSpan(T)
    BY DEF SeedIsTightest
  <2>1. evidence # {}
    <3> SUFFICES ASSUME evidence = {} PROVE FALSE
      OBVIOUS
    <3>1. RouteDeque(evidence, Route) = {}
      BY DEF RouteDeque, LatestRouteWindow
    <3>2. Cardinality(RouteDeque(evidence, Route)) < Rule.minimum
      BY <3>1, FS_EmptySet, RuleAssumption
    <3> QED
      BY <3>2 DEF Evaluation, EvaluateConcentration, NoEvaluation
  <2>2. Rule.minimum <= Cardinality(Retained)
    BY <1>1, <2>1, TooFew, RulesAreOK DEF NoEvaluation, Evaluation
  <2>3. Verdict(Evaluation, Retained, Incoming, Rule)
    BY <1>1, <2>1, <2>2, VerdictOfRule, RulesAreOK DEF Evaluation
  <2> QED
    BY <2>3 DEF Verdict, Groups
<1> QED
  BY <1>1, EvidenceInvariant, PTL

(* VerdictIsExhaustive: evaluate_concentration finds concentration exactly *)
(* when some group lies within the allowance.  The seed is such a group if *)
(* any is, as it is tightest and an allowance admits whatever is tighter.  *)
THEOREM VerdictTheorem == EvidenceSpec => []VerdictIsExhaustive
<1>1. ASSUME EvidenceInv PROVE VerdictIsExhaustive
  <2> SUFFICES ASSUME evidence # {}
               PROVE  Concentrated(Evaluation.result) <=>
                        \E T \in Groups(Rule.minimum) :
                          WithinAllowance(PriceSpan(T), IpdaWidth(Incoming), Rule)
    BY DEF VerdictIsExhaustive
  <2>1. CASE ~(Rule.minimum <= Cardinality(Retained))
    BY <1>1, <2>1, TooFew, RulesAreOK DEF Evaluation
  <2>2. CASE Rule.minimum <= Cardinality(Retained)
    <3>1. Verdict(Evaluation, Retained, Incoming, Rule)
      BY <1>1, <2>2, VerdictOfRule, RulesAreOK DEF Evaluation
    <3>2. /\ Evaluation.seed \in Groups(Rule.minimum)
          /\ \A T \in Groups(Rule.minimum) :
               /\ PriceSpan(T) \in Int /\ PriceSpan(Evaluation.seed) \in Int
               /\ PriceSpan(Evaluation.seed) <= PriceSpan(T)
          /\ Concentrated(Evaluation.result) <=>
               WithinAllowance(PriceSpan(Evaluation.seed), IpdaWidth(Incoming), Rule)
      BY <3>1 DEF Verdict, Groups
    <3>3. ASSUME NEW T \in Groups(Rule.minimum),
                 WithinAllowance(PriceSpan(T), IpdaWidth(Incoming), Rule)
          PROVE  WithinAllowance(PriceSpan(Evaluation.seed), IpdaWidth(Incoming), Rule)
      <4>1. IpdaWidth(Incoming) \in Int /\ RuleOK(Rule)
        BY <1>1, EvaluationIs, RulesAreOK
      <4> QED
        BY <3>2, <3>3, <4>1, WithinLess
    <3> QED
      BY <3>2, <3>3
  <2> QED
    BY <2>1, <2>2
<1> QED
  BY <1>1, EvidenceInvariant, PTL

(* CoreIsMaximalInterval: expand_selected_seed, which adds one neighbour   *)
(* at a time, ends with every retained observation between its bounds and  *)
(* could add none of the others: the next one on either side does not fit, *)
(* so no equal price is left out and none beyond fits either.              *)
THEOREM CoreTheorem == EvidenceSpec => []CoreIsMaximalInterval
<1>1. ASSUME EvidenceInv PROVE CoreIsMaximalInterval
  <2>1. CASE ~Concentrated(Evaluation.result)
    BY <2>1 DEF CoreIsMaximalInterval
  <2>2. CASE Concentrated(Evaluation.result)
    <3>1. evidence # {}
      <4> SUFFICES ASSUME evidence = {} PROVE FALSE
        OBVIOUS
      <4>1. RouteDeque(evidence, Route) = {}
        BY DEF RouteDeque, LatestRouteWindow
      <4>2. Cardinality(RouteDeque(evidence, Route)) < Rule.minimum
        BY <4>1, FS_EmptySet, RuleAssumption
      <4> QED
        BY <2>2, <4>2 DEF Evaluation, EvaluateConcentration, NoEvaluation, Concentrated
    <3>2. Rule.minimum <= Cardinality(Retained)
      BY <1>1, <2>2, <3>1, TooFew, RulesAreOK DEF Evaluation
    <3>3. Verdict(Evaluation, Retained, Incoming, Rule)
      BY <1>1, <3>1, <3>2, VerdictOfRule, RulesAreOK DEF Evaluation
    <3> QED
      BY <2>2, <3>3 DEF Verdict, CoreIsMaximalInterval
  <2> QED
    BY <2>1, <2>2
<1> QED
  BY <1>1, EvidenceInvariant, PTL

(* ScenariosAreOrdered: what an allowance admits a larger one admits, and  *)
(* the chronological seed is one of the groups the tightest seed is        *)
(* compared with.                                                          *)
THEOREM ScenariosTheorem == EvidenceSpec => []ScenariosAreOrdered
<1>1. ASSUME EvidenceInv PROVE ScenariosAreOrdered
  <2> DEFINE wider  == EvaluateConcentration(evidence, Route, WiderRule)
             chrono == EvaluateConcentration(evidence, Route, ChronologicalRule)
             w == IpdaWidth(Incoming)
  <2> SUFFICES ASSUME evidence # {}
               PROVE  /\ Concentrated(Evaluation.result) => Concentrated(wider.result)
                      /\ Concentrated(chrono.result) => Concentrated(Evaluation.result)
    BY DEF ScenariosAreOrdered
  <2>1. CASE ~(Rule.minimum <= Cardinality(Retained))
    <3>1. ~Concentrated(Evaluation.result)
      BY <1>1, <2>1, TooFew, RulesAreOK DEF Evaluation
    <3>2. ~Concentrated(chrono.result)
      <4>1. ~(ChronologicalRule.minimum <= Cardinality(Retained))
        BY <2>1, RulesAreOK
      <4>2. chrono = NoEvaluation /\ ~Concentrated(NoEvaluation.result)
        BY <1>1, <4>1, TooFew, RulesAreOK
      <4> QED
        BY <4>2
    <3> QED
      BY <3>1, <3>2
  <2>2. CASE Rule.minimum <= Cardinality(Retained)
    <3>1. Verdict(Evaluation, Retained, Incoming, Rule)
      BY <1>1, <2>2, VerdictOfRule, RulesAreOK DEF Evaluation
    <3>2. Verdict(wider, Retained, Incoming, WiderRule)
      <4>1. WiderRule.minimum <= Cardinality(Retained)
        BY <2>2, RulesAreOK
      <4> QED
        BY <1>1, <4>1, VerdictOfRule, RulesAreOK
    <3> HIDE DEF wider, chrono
    <3>3. /\ Evaluation.seed \in Groups(Rule.minimum)
          /\ \A T \in Groups(Rule.minimum) :
               /\ PriceSpan(T) \in Int /\ PriceSpan(Evaluation.seed) \in Int
               /\ PriceSpan(Evaluation.seed) <= PriceSpan(T)
          /\ Concentrated(Evaluation.result) <=>
               WithinAllowance(PriceSpan(Evaluation.seed), w, Rule)
      BY <3>1 DEF Verdict, Groups
    <3>4. /\ wider.seed \in Groups(Rule.minimum)
          /\ \A T \in Groups(Rule.minimum) :
               /\ PriceSpan(T) \in Int /\ PriceSpan(wider.seed) \in Int
               /\ PriceSpan(wider.seed) <= PriceSpan(T)
          /\ Concentrated(wider.result) <=>
               WithinAllowance(PriceSpan(wider.seed), w, WiderRule)
      BY <3>2, RulesAreOK DEF Verdict, Groups
    <3>5. w \in Nat /\ w \in Int
      BY <1>1, EvaluationIs
    <3> HIDE DEF w
    <3>6. Concentrated(Evaluation.result) => Concentrated(wider.result)
      <4> SUFFICES ASSUME Concentrated(Evaluation.result)
                   PROVE  WithinAllowance(PriceSpan(wider.seed), w, WiderRule)
        BY <3>4
      <4>1. Rule.num * WiderRule.den <= WiderRule.num * Rule.den
        BY RuleAssumption
      <4>2. WithinAllowance(PriceSpan(Evaluation.seed), w, WiderRule)
        BY <3>3, <3>5, <4>1, RulesAreOK, WiderAllows
      <4>3. /\ PriceSpan(Evaluation.seed) \in Int /\ PriceSpan(wider.seed) \in Int
            /\ PriceSpan(wider.seed) <= PriceSpan(Evaluation.seed)
        BY <3>3, <3>4
      <4> QED
        BY <3>5, <4>2, <4>3, RulesAreOK, WithinLess
    <3>7. Concentrated(chrono.result) => Concentrated(Evaluation.result)
      <4> SUFFICES ASSUME Concentrated(chrono.result)
                   PROVE  WithinAllowance(PriceSpan(Evaluation.seed), w, Rule)
        BY <3>3
      <4>1. chrono = EvaluateSorted(PriceSorted(Retained), Incoming, Route, ChronologicalRule)
        <5>1. ~(Cardinality(Retained) < ChronologicalRule.minimum)
          BY <1>1, <2>2, EvaluationIs, RulesAreOK DEF RuleOK
        <5> QED
          BY <1>1, <5>1, EvaluationIs DEF chrono
      <4>2. ChronologicalRule.minimum <= Cardinality(Retained)
        BY <2>2, RulesAreOK
      <4>3. PICK T \in SUBSET Retained :
              /\ Cardinality(T) = ChronologicalRule.minimum /\ Incoming \in T
              /\ WithinAllowance(PriceSpan(T), IpdaWidth(Incoming), ChronologicalRule)
        BY <1>1, <4>1, <4>2, EvaluationIs, RulesAreOK, ChronologicalIsGroup
      <4>4. T \in Groups(Rule.minimum) /\ WithinAllowance(PriceSpan(T), w, Rule)
        BY <4>3, RulesAreOK DEF Groups, WithinAllowance, w
      <4>5. /\ PriceSpan(T) \in Int /\ PriceSpan(Evaluation.seed) \in Int
            /\ PriceSpan(Evaluation.seed) <= PriceSpan(T)
        BY <3>3, <4>4
      <4> QED
        BY <3>5, <4>4, <4>5, RulesAreOK, WithinLess
    <3> QED
      BY <3>6, <3>7
  <2> QED
    BY <2>1, <2>2
<1> QED
  BY <1>1, EvidenceInvariant, PTL

------------------------------------------------------------------------------
(* A finite part of the observations.                                      *)
LEMMA ObservationsArePackets ==
  ASSUME NEW S \in SUBSET Observation, IsFiniteSet(S)
  PROVE  Packets(S)
BY ObservationAssumption DEF Packets, Packet

(* What evaluate_concentration is given: the retained part of a route.     *)
LEMMA RouteEvaluation ==
  ASSUME NEW S \in SUBSET Observation, IsFiniteSet(S), NEW route,
         NEW rule, RuleOK(rule), rule.algorithm = "A",
         EvaluateConcentration(S, route, rule) # NoEvaluation
  PROVE  LET group == {o \in S : o.route = route}
             W == RouteDeque(S, route)
         IN  /\ Packets(group) /\ group # {} /\ Packets(W) /\ W \in SUBSET group
             /\ NewestOf(group) \in W
             /\ Verdict(EvaluateConcentration(S, route, rule), W, NewestOf(group), rule)
<1> DEFINE group == {o \in S : o.route = route}
           W == RouteDeque(S, route)
<1>1. Packets(S) /\ group \in SUBSET S
  BY ObservationsArePackets
<1>2. Packets(group)
  BY <1>1, PartsOfPackets
<1>3. W = LatestRouteWindow(group)
  BY DEF RouteDeque
<1>4. /\ ~(Cardinality(W) < rule.minimum)
      /\ EvaluateConcentration(S, route, rule)
           = EvaluateSorted(PriceSorted(W), NewestOf(W), route, rule)
  BY DEF EvaluateConcentration
<1> HIDE DEF W, group
<1>5. group # {}
  <2> SUFFICES ASSUME group = {} PROVE FALSE
    OBVIOUS
  <2>1. W = {}
    BY <1>3 DEF LatestRouteWindow
  <2>2. Cardinality(W) < rule.minimum
    BY <2>1, FS_EmptySet DEF RuleOK
  <2> QED
    BY <1>4, <2>2
<1>6. /\ W \in SUBSET group /\ Packets(W) /\ NewestOf(group) \in W
      /\ NewestOf(W) = NewestOf(group)
  BY <1>2, <1>3, <1>5, WindowNewest
<1>7. rule.minimum <= Cardinality(W)
  <2>1. Cardinality(W) \in Nat
    BY <1>6, FS_CardinalityType DEF Packets
  <2> QED
    BY <1>4, <2>1 DEF RuleOK
<1>8. Verdict(EvaluateConcentration(S, route, rule), W, NewestOf(group), rule)
  BY <1>4, <1>6, <1>7, VerdictOf
<1> QED
  BY <1>2, <1>5, <1>6, <1>8 DEF W, group

\* Algorithm A with an allowance that is not negative.
TightestSeedRule(rule) == RuleOK(rule) /\ rule.algorithm = "A"

(* EvaluatorContract holds of evaluate_concentration: with algorithm A and *)
(* any allowance, a qualifying cluster of a finite set of observations is  *)
(* what the engine assumes it to be.                                       *)
THEOREM AlgorithmQualifiesProperly ==
  ASSUME NEW S \in SUBSET Observation, IsFiniteSet(S), NEW route \in Routes,
         NEW rule, TightestSeedRule(rule)
  PROVE  QualifiesProperly(EvaluateConcentration(S, route, rule), S, route)
<1> DEFINE e == EvaluateConcentration(S, route, rule)
           group == {o \in S : o.route = route}
           W == RouteDeque(S, route)
           n == NewestOf(group)
<1> SUFFICES ASSUME e.result = "QUALIFIES"
             PROVE  QualifiesProperly(e, S, route)
  BY DEF QualifiesProperly
<1>1. e # NoEvaluation
  BY DEF NoEvaluation
<1>2. /\ Packets(group) /\ group # {} /\ Packets(W) /\ W \in SUBSET group
      /\ n \in W /\ Verdict(e, W, n, rule)
  BY <1>1, RouteEvaluation DEF TightestSeedRule
<1> HIDE DEF e, W
<1>3. /\ e.members = {x \in W : x.price >= e.lower /\ x.price <= e.upper}
      /\ n \in e.members
      /\ \E x \in e.members : x.price = e.lower
      /\ \E x \in e.members : x.price = e.upper
  BY <1>2 DEF Verdict, Concentrated
<1>4. e.members \in SUBSET S /\ e.members \in SUBSET W
  BY <1>2, <1>3
<1>5. \A x \in W : x.price \in Int /\ x.tick \in Nat
  BY <1>2 DEF Packets, Packet
<1>6. e.lower \in Int /\ e.upper \in Int
  BY <1>3, <1>4, <1>5
<1>7. Cardinality(e.members) \in Nat
  BY <1>2, <1>4, FS_Subset, FS_CardinalityType DEF Packets
<1>8. \A x \in e.members : e.lower <= x.price /\ x.price <= e.upper
  BY <1>3, <1>4, <1>5, <1>6
<1>9. \E x \in e.members : \A p \in e.members : x.tick <= p.tick
  <2> DEFINE D == {x.tick : x \in e.members}
  <2>1. D \in SUBSET Nat /\ D # {}
    BY <1>3, <1>4, <1>5
  <2>2. PICK d \in D : \A c \in D : d <= c
    BY <2>1, LeastNatural
  <2> QED
    BY <2>2
<1>10. \A p \in S : p.route = route => ~Before(n, p)
  <2>1. \A p \in group : ~Before(n, p)
    BY <1>2, NewestOfPackets
  <2> QED
    BY <2>1
<1> HIDE DEF n
<1> QED
  BY <1>3, <1>4, <1>6, <1>7, <1>8, <1>9, <1>10 DEF QualifiesProperly

(* NearMissContract holds of production_near_misses: each candidate has    *)
(* bounds that are prices and names the newest observation of its route.   *)
THEOREM NearMissesAreCandidates ==
  ASSUME NEW S \in SUBSET Observation, IsFiniteSet(S),
         NEW rule, TightestSeedRule(rule), NEW c \in CurrentNearMisses(S, rule)
  PROVE  IsCandidate(c, S)
<1> DEFINE group(r) == {o \in S : o.route = r}
           current(r) == EvaluateConcentration(group(r), r, rule)
<1>1. PICK r \in Routes :
        /\ current(r).result = "TOO_DISPERSED"
        /\ c.route = r /\ c.newest = NewestOf(group(r))
        /\ c.lower = current(r).seedLower /\ c.upper = current(r).seedUpper
  BY DEF CurrentNearMisses, MissesNarrowly
<1> DEFINE G == group(r)
           e == current(r)
           W == RouteDeque(G, r)
<1>2. G \in SUBSET Observation /\ IsFiniteSet(G) /\ {o \in G : o.route = r} = G
  BY FS_Subset
<1>3. e # NoEvaluation
  BY <1>1 DEF NoEvaluation
<1>4. e = EvaluateConcentration(G, r, rule)
  OBVIOUS
<1>5. c.newest = NewestOf(G) /\ c.lower = e.seedLower /\ c.upper = e.seedUpper
  BY <1>1
<1> HIDE DEF G, e
<1>6. /\ Packets(G) /\ G # {} /\ Packets(W) /\ W \in SUBSET G
      /\ NewestOf(G) \in W /\ Verdict(e, W, NewestOf(G), rule)
  <2>1. EvaluateConcentration(G, r, rule) # NoEvaluation
    BY <1>3, <1>4
  <2> HIDE DEF W
  <2>2. LET group2 == {o \in G : o.route = r}
        IN  /\ Packets(group2) /\ group2 # {} /\ Packets(W) /\ W \in SUBSET group2
            /\ NewestOf(group2) \in W
            /\ Verdict(EvaluateConcentration(G, r, rule), W, NewestOf(group2), rule)
    BY <1>2, <2>1, RouteEvaluation DEF TightestSeedRule, W
  <2> QED
    BY <1>2, <1>4, <2>2
<1> HIDE DEF W
<1>7. e.seedLower \in Int /\ e.seedUpper \in Int
  <2>1. e.seed \in SUBSET W /\ (\E x \in e.seed : x.price = e.seedLower)
          /\ (\E x \in e.seed : x.price = e.seedUpper)
    BY <1>6 DEF Verdict
  <2>2. \A x \in W : x.price \in Int
    BY <1>6 DEF Packets, Packet
  <2> QED
    BY <2>1, <2>2
<1>8. \A p \in G : ~Before(NewestOf(G), p)
  BY <1>6, NewestOfPackets
<1>9. \A p \in S : p.route = r => p \in G
  BY DEF G
<1>10. NewestOf(G) \in S /\ NewestOf(G).route = r
  BY <1>6 DEF G
<1> QED
  BY <1>1, <1>5, <1>7, <1>8, <1>9, <1>10 DEF IsCandidate

------------------------------------------------------------------------------
\* A replay state between two iterations of the loop.
ReplayState(r) ==
  /\ r.active \in MRZ \cup {NoMRZ}
  /\ r.transitions \in Seq(Transition)

\* What can be stored: every stored set is finite.
Evidence == FiniteSubsetsOf(Observation)

(* A part of what can be stored can be stored.                             *)
LEMMA Parts ==
  ASSUME NEW S \in Evidence
  PROVE  /\ S \subseteq Observation /\ IsFiniteSet(S)
         /\ \A T \in SUBSET S : T \in Evidence
         /\ \A o \in Observation : S \cup {o} \in Evidence
BY FS_Subset, FS_AddElement DEF Evidence, FiniteSubsetsOf

(* What the engine has replayed could be stored.                           *)
LEMMA SeenIsEvidence ==
  ASSUME TypeOK
  PROVE  seen \in Evidence
BY DEF TypeOK, Evidence, FiniteSubsetsOf

(* A window is made of observations that have been replayed.               *)
LEMMA DequeIsSeen ==
  ASSUME NEW S, NEW route
  PROVE  RouteDeque(S, route) \subseteq S
BY DEF RouteDeque, LatestRouteWindow

(* What the engine gets from a qualifying evaluation of a part of the      *)
(* replayed evidence: a well-formed authority whose bounds are prices of   *)
(* members.                                                                *)
LEMMA BuiltAuthority ==
  ASSUME NEW S \in Evidence, NEW o \in Observation,
         NEW source \in Sources,
         QualifiesFor(Evaluate(S, o.route), o)
  PROVE  LET e == Evaluate(S, o.route)
             m == BuildActiveMRZ(o, e, source)
         IN  /\ m \in MRZ
             /\ m.source = source
             /\ m.supporting = m.confirming
             /\ \E x \in e.members : m.lower = x.price
             /\ \E x \in e.members : m.upper = x.price
             /\ e.members \subseteq Observation
<1> DEFINE e == Evaluate(S, o.route)
           m == BuildActiveMRZ(o, e, source)
<1>1. o.route \in Routes /\ o.id \in Int
  BY ObservationAssumption
<1>2. /\ e.members \subseteq S
      /\ e.lower \in Int /\ e.upper \in Int
      /\ Cardinality(e.members) \in Nat
      /\ \E x \in e.members : x.price = e.lower
      /\ \E x \in e.members : x.price = e.upper
      /\ \E x \in e.members : \A p \in e.members : x.tick <= p.tick
  BY <1>1, Parts, EvaluatorContract DEF QualifiesFor, QualifiesProperly
<1>3. m.location \in Locations
  <2>1. m.location # NoLocation
    BY DEF QualifiesFor, StructurallyValid, BuildActiveMRZ
  <2> QED
    BY <2>1 DEF BuildActiveMRZ, ClassifyStructuralLocation, RouteLocations, Locations
<1>4. EffectiveInstrumentTick(e.members) \in Nat \ {0}
  <2>1. \A x \in e.members : x.tick \in Nat \ {0}
    BY <1>2, Parts, ObservationAssumption
  <2>2. \E t \in {x.tick : x \in e.members} : \A p \in e.members : t <= p.tick
    BY <1>2
  <2>3. EffectiveInstrumentTick(e.members) \in {x.tick : x \in e.members}
    BY <2>2 DEF EffectiveInstrumentTick
  <2> QED
    BY <2>1, <2>3
<1>5. m \in MRZ
  BY <1>1, <1>2, <1>3, <1>4 DEF BuildActiveMRZ, MRZ
<1>6. e.members \subseteq Observation
  BY <1>2, Parts
<1> QED
  BY <1>2, <1>5, <1>6 DEF BuildActiveMRZ

(* The four things one iteration of the loop may do.                       *)
Stays(r, q)     == q = r
Activates(r, q, o) ==
  /\ r.active = NoMRZ
  /\ \E m \in MRZ :
       q = Result(m, Append(r.transitions, Recorded("MRZ_ACTIVATED", o, NoMRZ, m)))
Supports(r, q)  ==
  /\ r.active # NoMRZ
  /\ q = Result([r.active EXCEPT !.supporting = @ + 1], r.transitions)
Migrates(r, q, o) ==
  /\ r.active # NoMRZ
  /\ ExternalSide(r.active, o.price) # "NONE"
  /\ \E m \in MRZ : /\ m.source = r.active.source
                    /\ Beyond(r.active, m)
                    /\ q = MigrateTo(r, o, m)

(* One iteration does one of the four things.                              *)
LEMMA StepCases ==
  ASSUME NEW r, ReplayState(r),
         NEW window \in Evidence, NEW o \in Observation,
         NEW promo \in MRZ \cup {NoMRZ}
  PROVE  LET q == ReplayStep(r, window, o, promo)
         IN  Stays(r, q) \/ Activates(r, q, o) \/ Supports(r, q) \/ Migrates(r, q, o)
<1> DEFINE q == ReplayStep(r, window, o, promo)
<1>1. CASE r.active = NoMRZ
  <2> DEFINE e == Evaluate(window, o.route)
             built == BuildActiveMRZ(o, e, "PRODUCTION_QUALIFIED")
             m == IF promo # NoMRZ /\ o.id = promo.trigger THEN promo
                  ELSE IF QualifiesFor(e, o) THEN built ELSE NoMRZ
  <2>1. q = IF m = NoMRZ THEN r
            ELSE Result(m, Append(r.transitions, Recorded("MRZ_ACTIVATED", o, NoMRZ, m)))
    BY <1>1 DEF ReplayStep, WithoutAuthority
  <2>2. QualifiesFor(e, o) => built \in MRZ
    BY BuiltAuthority DEF Sources
  <2>3. m \in MRZ \cup {NoMRZ}
    BY <2>2
  <2> HIDE DEF m
  <2> QED
    BY <1>1, <2>1, <2>3 DEF Stays, Activates
<1>2. CASE r.active # NoMRZ
  <2> DEFINE a == r.active
             pool == SuccessorPool(a, window, o)
             e == Evaluate(pool, o.route)
             m == BuildActiveMRZ(o, e, a.source)
  <2>1. a \in MRZ
    BY <1>2 DEF ReplayState
  <2>2. CASE SupportsActiveCore(a, o)
    BY <1>2, <2>2 DEF ReplayStep, WithAuthority, Supports
  <2>3. CASE ~SupportsActiveCore(a, o)
    <3>1. CASE ~(/\ ExternalSide(a, o.price) # "NONE"
                 /\ QualifiesFor(e, o)
                 /\ WhollyExternal(a, e, o))
      BY <1>2, <2>3, <3>1 DEF ReplayStep, WithAuthority, Stays
    <3>2. CASE /\ ExternalSide(a, o.price) # "NONE"
               /\ QualifiesFor(e, o)
               /\ WhollyExternal(a, e, o)
      <4>1. q = MigrateTo(r, o, m)
        BY <1>2, <2>3, <3>2 DEF ReplayStep, WithAuthority
      <4>2. pool \in Evidence /\ a.source \in Sources
        BY <2>1, Parts DEF SuccessorPool, MRZ
      <4>3. /\ m \in MRZ /\ m.source = a.source
            /\ \E x \in e.members : m.lower = x.price
            /\ \E x \in e.members : m.upper = x.price
        BY <3>2, <4>2, BuiltAuthority
      <4>4. \A x \in e.members : ExternalSide(a, x.price) = ExternalSide(a, o.price)
        BY <3>2 DEF WhollyExternal
      <4>5. CASE ExternalSide(a, o.price) = "UP"
        <5>1. \A x \in e.members : x.price > UpperMigrationBoundary(a)
          BY <4>4, <4>5 DEF ExternalSide
        <5> QED
          BY <1>2, <3>2, <4>1, <4>3, <5>1 DEF Migrates, Beyond
      <4>6. CASE ExternalSide(a, o.price) = "DOWN"
        <5>1. \A x \in e.members : x.price < LowerMigrationBoundary(a)
          BY <4>4, <4>6 DEF ExternalSide
        <5> QED
          BY <1>2, <3>2, <4>1, <4>3, <5>1 DEF Migrates, Beyond
      <4> QED
        BY <3>2, <4>5, <4>6 DEF ExternalSide
    <3> QED
      BY <3>1, <3>2
  <2> QED
    BY <2>2, <2>3
<1> QED
  BY <1>1, <1>2
------------------------------------------------------------------------------
\* One delivery as a replay step of the state variables.
Before_ == Result(active, transitions)
After_  == Result(active', transitions')

(* So does the engine's action, on its variables.                          *)
LEMMA DeliverCases ==
  ASSUME TypeOK, NEW o \in Observation, Deliver(o)
  PROVE  \/ Stays(Before_, After_)
         \/ Activates(Before_, After_, o)
         \/ Supports(Before_, After_)
         \/ Migrates(Before_, After_, o)
<1> DEFINE window == RouteDeque(seen', o.route)
           r == ReplayStep(Before_, window, o, promotion)
<1>1. ReplayState(Before_)
  BY DEF TypeOK, ReplayState, Before_, Result
<1>2. window \in Evidence
  BY DequeIsSeen, Parts, SeenIsEvidence, ObservationAssumption DEF Deliver
<1>3. promotion \in MRZ \cup {NoMRZ}
  BY PromotionAssumption DEF TypeOK
<1>4. Stays(Before_, r) \/ Activates(Before_, r, o) \/ Supports(Before_, r)
        \/ Migrates(Before_, r, o)
  BY <1>1, <1>2, <1>3, StepCases
<1>5. active' = r.active /\ transitions' = r.transitions
  BY DEF Deliver, Before_
<1>6. r = After_
  <2>1. CASE Stays(Before_, r)
    BY <1>5, <2>1 DEF Stays, Before_, After_, Result
  <2>2. CASE Activates(Before_, r, o)
    BY <1>5, <2>2 DEF Activates, After_, Result
  <2>3. CASE Supports(Before_, r)
    BY <1>5, <2>3 DEF Supports, After_, Result
  <2>4. CASE Migrates(Before_, r, o)
    BY <1>5, <2>4 DEF Migrates, MigrateTo, After_, Result
  <2> QED
    BY <1>4, <2>1, <2>2, <2>3, <2>4
<1> QED
  BY <1>4, <1>6

(* The same four cases on the state variables, in the form the invariance  *)
(* proofs use.                                                             *)
Activated(o) ==
  /\ active = NoMRZ
  /\ \E m \in MRZ :
       /\ active' = m
       /\ transitions' = Append(transitions, Recorded("MRZ_ACTIVATED", o, NoMRZ, m))
Supported ==
  /\ active \in MRZ
  /\ active' = [active EXCEPT !.supporting = @ + 1]
  /\ UNCHANGED transitions
Migrated(o) ==
  /\ active \in MRZ
  /\ \E m \in MRZ :
       LET moved == Append(transitions, Recorded("MRZ_MIGRATED", o, active, m))
       IN  /\ m.source = active.source
           /\ Beyond(active, m)
           /\ active' = m
           /\ \/ m.owner = active.owner /\ transitions' = moved
              \/ /\ m.owner # active.owner
                 /\ transitions' = Append(moved, Recorded("ROUTE_CHANGED", o, active, m))

(* What a step of the engine may do, and what it leaves alone.             *)
LEMMA NextCases ==
  ASSUME TypeOK, [Next]_vars
  PROVE  /\ UNCHANGED promotion
         /\ seen' \subseteq Observation /\ IsFiniteSet(seen')
         /\ \/ UNCHANGED <<active, transitions>>
            \/ \E o \in Observation : Activated(o)
            \/ Supported
            \/ \E o \in Observation : Migrated(o)
<1>1. CASE UNCHANGED vars
  BY <1>1 DEF vars, TypeOK
<1>2. ASSUME NEW o \in Observation, Deliver(o)
      PROVE  /\ UNCHANGED promotion
             /\ seen' \subseteq Observation /\ IsFiniteSet(seen')
             /\ \/ UNCHANGED <<active, transitions>>
                \/ Activated(o) \/ Supported \/ Migrated(o)
  <2>1. UNCHANGED promotion /\ seen' \subseteq Observation /\ IsFiniteSet(seen')
    BY <1>2, FS_AddElement DEF Deliver, TypeOK
  <2>2. CASE Stays(Before_, After_)
    BY <2>1, <2>2 DEF Stays, Before_, After_, Result
  <2>3. CASE Activates(Before_, After_, o)
    BY <2>1, <2>3 DEF Activates, Activated, Before_, After_, Result
  <2>4. CASE Supports(Before_, After_)
    BY <2>1, <2>4 DEF Supports, Supported, Before_, After_, Result, TypeOK
  <2>5. CASE Migrates(Before_, After_, o)
    BY <2>1, <2>5 DEF Migrates, Migrated, MigrateTo, Before_, After_, Result, TypeOK
  <2> QED
    BY <1>2, <2>2, <2>3, <2>4, <2>5, DeliverCases
<1> QED
  BY <1>1, <1>2 DEF Next
------------------------------------------------------------------------------
(* Type correctness of the engine's state.                                 *)
THEOREM TypeCorrect == Spec => []TypeOK
<1>1. Init => TypeOK
  BY FS_EmptySet DEF Init, TypeOK
<1>2. TypeOK /\ [Next]_vars => TypeOK'
  <2> SUFFICES ASSUME TypeOK, [Next]_vars PROVE TypeOK'
    OBVIOUS
  <2>1. \A o \in Observation : o.id \in Int
    BY ObservationAssumption
  <2>2. /\ promotion' \in Promotions \cup {NoMRZ}
        /\ seen' \subseteq Observation /\ IsFiniteSet(seen')
    BY NextCases DEF TypeOK
  <2>3. CASE UNCHANGED <<active, transitions>>
    BY <2>2, <2>3 DEF TypeOK
  <2>4. ASSUME NEW o \in Observation, Activated(o) PROVE TypeOK'
    BY <2>1, <2>2, <2>4 DEF TypeOK, Activated, Transition, Recorded
  <2>5. CASE Supported
    <3>1. active' \in MRZ
      BY <2>5 DEF Supported, MRZ
    <3> QED
      BY <2>2, <2>5, <3>1 DEF Supported, TypeOK
  <2>6. ASSUME NEW o \in Observation, Migrated(o) PROVE TypeOK'
    <3>1. \A m \in MRZ : /\ Recorded("MRZ_MIGRATED", o, active, m) \in Transition
                         /\ Recorded("ROUTE_CHANGED", o, active, m) \in Transition
      BY <2>1, <2>6 DEF Migrated, Transition, Recorded
    <3> QED
      BY <2>2, <2>6, <3>1 DEF TypeOK, Migrated
  <2> QED
    BY <2>3, <2>4, <2>5, <2>6, NextCases
<1> QED
  BY <1>1, <1>2, PTL DEF Spec

(* Appending one entry, or a migration and its route change, extends a     *)
(* sequence without touching what it holds.                                *)
LEMMA Extended ==
  ASSUME NEW t \in Seq(Transition), NEW x \in Transition, NEW y \in Transition,
         NEW u, u = Append(t, x) \/ u = Append(Append(t, x), y)
  PROVE  LET n == Len(t)
         IN  /\ n \in Nat /\ DOMAIN t = 1..n
             /\ \/ Len(u) = n + 1
                \/ Len(u) = n + 2 /\ u[n + 2] = y
             /\ DOMAIN u = 1..Len(u)
             /\ \A i \in 1..n : u[i] = t[i]
             /\ u[n + 1] = x
             /\ u # <<>>
OBVIOUS

(* A migration, with or without its route change, keeps the chain.         *)
LEMMA MigrationExtendsChain ==
  ASSUME NEW t \in Seq(Transition), NEW a \in MRZ, NEW m \in MRZ,
         NEW x \in Transition, NEW y \in Transition,
         x.type = "MRZ_MIGRATED", x.old = a, x.new = m,
         y.type = "ROUTE_CHANGED", y.new = m,
         NEW u, u = Append(t, x) \/ u = Append(Append(t, x), y),
         Chain(a, t)
  PROVE  Chain(m, u)
<1> DEFINE n == Len(t)
<1>1. /\ n \in Nat /\ DOMAIN t = 1..n
      /\ \/ Len(u) = n + 1
         \/ Len(u) = n + 2 /\ u[n + 2] = y
      /\ DOMAIN u = 1..Len(u)
      /\ \A i \in 1..n : u[i] = t[i]
      /\ u[n + 1] = x
      /\ u # <<>>
  BY Extended
<1>2. a # NoMRZ /\ m # NoMRZ /\ m.supporting \in Nat
  BY NoMRZAssumption DEF MRZ
<1>3. n > 0
  <2>1. t # <<>>
    BY <1>2 DEF Chain
  <2> QED
    BY <2>1
<1>t. n \in Nat
  BY <1>1
<1>4. SameAuthority(a, t[n].new) /\ a.supporting >= t[n].new.supporting
  BY <1>1, <1>2 DEF Chain
<1>5. \A i \in 1..n : (t[i].type = "MRZ_ACTIVATED") <=> (i = 1)
  BY <1>1 DEF Chain
<1>6. \A i \in 1..n : t[i].type = "MRZ_MIGRATED" =>
         /\ t[i].old # NoMRZ
         /\ SameAuthority(t[i].old, t[i - 1].new)
         /\ t[i].old.supporting >= t[i - 1].new.supporting
  BY <1>1 DEF Chain
<1>7. \A i \in DOMAIN u : i \in 1..n \/ i = n + 1 \/ (i = n + 2 /\ u[i] = y)
  <2>1. n \in Nat /\ DOMAIN u = 1..Len(u)
    BY <1>1
  <2>2. CASE Len(u) = n + 1
    BY <2>1, <2>2
  <2>3. CASE Len(u) = n + 2 /\ u[n + 2] = y
    BY <2>1, <2>3
  <2> QED
    BY <1>1, <2>2, <2>3
<1>8. \A i \in 1..n : u[i] = t[i]
  BY <1>1
<1>9. u[n + 1] = x
  BY <1>1
<1>10. u[Len(u)].new = m
  BY <1>1
<1> HIDE DEF n
<1>11. ASSUME NEW i \in DOMAIN u
       PROVE  (u[i].type = "MRZ_ACTIVATED") <=> (i = 1)
  <2>1. CASE i \in 1..n
    BY <1>5, <1>8, <2>1
  <2>2. CASE i = n + 1
    <3>1. i # 1
      BY <1>t, <1>3, <2>2
    <3> QED
      BY <1>9, <2>2, <3>1
  <2>3. CASE i = n + 2 /\ u[i] = y
    <3>1. i # 1
      BY <1>t, <1>3, <2>3
    <3> QED
      BY <2>3, <3>1
  <2> QED
    BY <1>7, <2>1, <2>2, <2>3
<1>12. ASSUME NEW i \in DOMAIN u, u[i].type = "MRZ_MIGRATED"
       PROVE  /\ u[i].old # NoMRZ
              /\ SameAuthority(u[i].old, u[i - 1].new)
              /\ u[i].old.supporting >= u[i - 1].new.supporting
  <2>1. CASE i \in 1..n
    <3>1. u[i] = t[i]
      BY <1>8, <2>1
    <3>2. i # 1
      BY <1>5, <1>12, <2>1, <3>1
    <3>3. i - 1 \in 1..n
      BY <1>t, <2>1, <3>2
    <3>4. u[i - 1] = t[i - 1]
      BY <1>8, <3>3
    <3> QED
      BY <1>6, <1>12, <2>1, <3>1, <3>4
  <2>2. CASE i = n + 1
    <3>1. i - 1 = n /\ n \in 1..n
      BY <1>t, <1>3, <2>2
    <3>2. u[i - 1] = t[n]
      BY <1>8, <3>1
    <3>3. u[i].old = a
      BY <1>9, <2>2
    <3> QED
      BY <1>2, <1>4, <3>2, <3>3
  <2>3. CASE i = n + 2 /\ u[i] = y
    BY <1>12, <2>3
  <2> QED
    BY <1>7, <2>1, <2>2, <2>3
<1>13. SameAuthority(m, u[Len(u)].new) /\ m.supporting >= u[Len(u)].new.supporting
  BY <1>2, <1>10 DEF SameAuthority
<1>14. u # <<>>
  BY <1>1
<1> QED
  BY <1>2, <1>11, <1>12, <1>13, <1>14 DEF Chain

(* What one iteration makes of a replay state and its chain.               *)
LEMMA IterationKeepsState ==
  ASSUME NEW r, NEW q, NEW o \in Observation, ReplayState(r),
         Stays(r, q) \/ Activates(r, q, o) \/ Supports(r, q) \/ Migrates(r, q, o)
  PROVE  ReplayState(q)
<1>1. o.id \in Int
  BY ObservationAssumption
<1>2. CASE Stays(r, q)
  BY <1>2 DEF Stays
<1>3. CASE Activates(r, q, o)
  BY <1>1, <1>3 DEF Activates, ReplayState, Result, Recorded, Transition
<1>4. CASE Supports(r, q)
  <2>1. r.active \in MRZ
    BY <1>4 DEF Supports, ReplayState
  <2>2. [r.active EXCEPT !.supporting = @ + 1] \in MRZ
    BY <2>1 DEF MRZ
  <2> QED
    BY <1>4, <2>2 DEF Supports, ReplayState, Result
<1>5. CASE Migrates(r, q, o)
  <2>1. r.active \in MRZ
    BY <1>5 DEF Migrates, ReplayState
  <2>2. \A m \in MRZ : /\ Recorded("MRZ_MIGRATED", o, r.active, m) \in Transition
                       /\ Recorded("ROUTE_CHANGED", o, r.active, m) \in Transition
    BY <1>1, <2>1 DEF Transition, Recorded
  <2> QED
    BY <1>5, <2>2 DEF Migrates, MigrateTo, ReplayState, Result
<1> QED
  BY <1>2, <1>3, <1>4, <1>5

(* An iteration continues the chain of recorded authorities.               *)
LEMMA IterationKeepsChain ==
  ASSUME NEW r, NEW q, NEW o \in Observation, ReplayState(r),
         Stays(r, q) \/ Activates(r, q, o) \/ Supports(r, q) \/ Migrates(r, q, o),
         Chain(r.active, r.transitions)
  PROVE  Chain(q.active, q.transitions)
<1>1. r.transitions \in Seq(Transition)
  BY DEF ReplayState
<1>2. CASE Stays(r, q)
  BY <1>2 DEF Stays
<1>3. CASE Activates(r, q, o)
  <2>1. r.transitions = <<>>
    BY <1>3 DEF Activates, Chain
  <2>2. PICK m \in MRZ : q = Result(m, <<Recorded("MRZ_ACTIVATED", o, NoMRZ, m)>>)
    BY <1>3, <2>1 DEF Activates
  <2>3. m # NoMRZ /\ m.supporting \in Nat
    BY NoMRZAssumption DEF MRZ
  <2>4. /\ q.active = m
        /\ q.transitions = <<Recorded("MRZ_ACTIVATED", o, NoMRZ, m)>>
    BY <2>2 DEF Result
  <2> QED
    BY <2>3, <2>4 DEF Chain, Recorded, SameAuthority
<1>4. CASE Supports(r, q)
  <2> DEFINE t == r.transitions
  <2>0. r.active \in MRZ
    BY <1>4 DEF Supports, ReplayState
  <2>1. r.active # NoMRZ /\ r.active.supporting \in Nat
    BY <2>0, NoMRZAssumption DEF MRZ
  <2>2. /\ q.active = [r.active EXCEPT !.supporting = @ + 1]
        /\ q.transitions = t
    BY <1>4 DEF Supports, Result
  <2>3. /\ q.active \in MRZ
        /\ q.active.supporting = r.active.supporting + 1
        /\ AuthoritySignature(q.active) = AuthoritySignature(r.active)
    BY <2>0, <2>2 DEF MRZ, AuthoritySignature
  <2>4. q.active # NoMRZ
    BY <2>3, NoMRZAssumption
  <2>5. t # <<>>
    BY <2>1 DEF Chain
  <2>6. t[Len(t)] \in Transition
    BY <1>1, <2>5
  <2>7. t[Len(t)].new.supporting \in Nat
    BY <2>6 DEF Transition, MRZ
  <2> QED
    BY <2>1, <2>2, <2>3, <2>4, <2>7 DEF Chain, SameAuthority
<1>5. CASE Migrates(r, q, o)
  <2>1. PICK m \in MRZ : q = MigrateTo(r, o, m)
    BY <1>5 DEF Migrates
  <2>2. r.active \in MRZ
    BY <1>5 DEF Migrates, ReplayState
  <2> DEFINE x == Recorded("MRZ_MIGRATED", o, r.active, m)
             y == Recorded("ROUTE_CHANGED", o, r.active, m)
  <2>3. /\ x \in Transition /\ x.type = "MRZ_MIGRATED" /\ x.old = r.active /\ x.new = m
        /\ y \in Transition /\ y.type = "ROUTE_CHANGED" /\ y.new = m
    BY <2>2, ObservationAssumption DEF Transition, Recorded
  <2>4. /\ q.active = m
        /\ \/ q.transitions = Append(r.transitions, x)
           \/ q.transitions = Append(Append(r.transitions, x), y)
    BY <2>1 DEF MigrateTo, Result
  <2> HIDE DEF x, y
  <2> QED
    BY <1>1, <2>2, <2>3, <2>4, MigrationExtendsChain
<1> QED
  BY <1>2, <1>3, <1>4, <1>5

(* HistoryIsAChain: no authority appears, disappears or moves without an   *)
(* event, whatever observations arrive and whatever is promoted.  It is    *)
(* inductive relative to TypeOK.                                           *)
THEOREM ChainTheorem == Spec => []HistoryIsAChain
<1>1. Init => HistoryIsAChain
  BY DEF Init, HistoryIsAChain, Chain
<1>2. TypeOK /\ HistoryIsAChain /\ [Next]_vars => HistoryIsAChain'
  <2> SUFFICES ASSUME TypeOK, HistoryIsAChain, [Next]_vars
               PROVE  Chain(active', transitions')
    BY DEF HistoryIsAChain
  <2>1. CASE UNCHANGED vars
    <3>1. active' = active /\ transitions' = transitions
      BY <2>1 DEF vars
    <3> QED
      BY <3>1 DEF HistoryIsAChain
  <2>2. ASSUME NEW o \in Observation, Deliver(o) PROVE Chain(active', transitions')
    <3>1. ReplayState(Before_) /\ Chain(Before_.active, Before_.transitions)
      BY DEF TypeOK, HistoryIsAChain, ReplayState, Before_, Result
    <3>2. Chain(After_.active, After_.transitions)
      BY <2>2, <3>1, DeliverCases, IterationKeepsChain
    <3> QED
      BY <3>2 DEF After_, Result
  <2> QED
    BY <2>1, <2>2 DEF Next
<1> QED
  BY <1>1, <1>2, TypeCorrect, PTL DEF Spec

(* SuccessorIsExternal: every migration ever recorded lands wholly beyond  *)
(* the envelope it leaves.                                                 *)
THEOREM ExternalTheorem == Spec => []SuccessorIsExternal
<1>1. Init => SuccessorIsExternal
  BY DEF Init, SuccessorIsExternal
<1>2. TypeOK /\ SuccessorIsExternal /\ [Next]_vars => SuccessorIsExternal'
  <2> SUFFICES ASSUME TypeOK, SuccessorIsExternal, [Next]_vars
               PROVE  SuccessorIsExternal'
    OBVIOUS
  <2>1. transitions \in Seq(Transition)
    BY DEF TypeOK
  <2>2. CASE UNCHANGED <<active, transitions>>
    BY <2>2 DEF SuccessorIsExternal
  <2>3. ASSUME NEW o \in Observation, Activated(o) PROVE SuccessorIsExternal'
    BY <2>1, <2>3 DEF Activated, SuccessorIsExternal, Recorded
  <2>4. CASE Supported
    BY <2>4 DEF Supported, SuccessorIsExternal
  <2>5. ASSUME NEW o \in Observation, Migrated(o) PROVE SuccessorIsExternal'
    <3>1. PICK m \in MRZ :
            LET moved == Append(transitions, Recorded("MRZ_MIGRATED", o, active, m))
            IN  /\ Beyond(active, m)
                /\ \/ transitions' = moved
                   \/ transitions' = Append(moved, Recorded("ROUTE_CHANGED", o, active, m))
      BY <2>5 DEF Migrated
    <3>2. ASSUME NEW i \in DOMAIN transitions', transitions'[i].type = "MRZ_MIGRATED"
          PROVE  \/ i \in DOMAIN transitions /\ transitions'[i] = transitions[i]
                 \/ transitions'[i] = Recorded("MRZ_MIGRATED", o, active, m)
      <4> DEFINE x == Recorded("MRZ_MIGRATED", o, active, m)
                 y == Recorded("ROUTE_CHANGED", o, active, m)
                 n == Len(transitions)
      <4>1. x \in Transition /\ y \in Transition /\ y.type = "ROUTE_CHANGED"
        BY <2>5, ObservationAssumption DEF Migrated, Transition, Recorded
      <4>2. transitions' = Append(transitions, x) \/ transitions' = Append(Append(transitions, x), y)
        BY <3>1
      <4> HIDE DEF x, y
      <4>3. /\ n \in Nat /\ DOMAIN transitions = 1..n
            /\ \/ Len(transitions') = n + 1
               \/ Len(transitions') = n + 2 /\ transitions'[n + 2] = y
            /\ DOMAIN transitions' = 1..Len(transitions')
            /\ \A j \in 1..n : transitions'[j] = transitions[j]
            /\ transitions'[n + 1] = x
        BY <2>1, <4>1, <4>2, Extended
      <4>4. CASE i \in 1..n
        BY <4>3, <4>4
      <4>5. CASE i \notin 1..n
        <5>1. i = n + 1 \/ (i = n + 2 /\ transitions'[n + 2] = y)
          <6>1. i \in 1..Len(transitions')
            BY <3>2, <4>3
          <6>2. CASE Len(transitions') = n + 1
            BY <4>3, <4>5, <6>1, <6>2
          <6>3. CASE Len(transitions') = n + 2 /\ transitions'[n + 2] = y
            <7>1. n \in Nat /\ i \in 1..(n + 2)
              BY <4>3, <6>1, <6>3
            <7>2. i = n + 1 \/ i = n + 2
              BY <4>5, <7>1
            <7> QED
              BY <6>3, <7>2
          <6> QED
            BY <4>3, <6>2, <6>3
        <5>2. transitions'[i] = x
          BY <3>2, <4>1, <4>3, <5>1
        <5> QED
          BY <5>2 DEF x
      <4> QED
        BY <4>4, <4>5
    <3> QED
      BY <3>1, <3>2 DEF SuccessorIsExternal, Recorded
  <2> QED
    BY <2>2, <2>3, <2>4, <2>5, NextCases
<1> QED
  BY <1>1, <1>2, TypeCorrect, PTL DEF Spec

(* What recorded history is extended by, it begins with.                   *)
LEMMA HistoryKept ==
  ASSUME NEW t \in Seq(Transition), NEW x \in Transition, NEW y \in Transition,
         NEW u, u = t \/ u = Append(t, x) \/ u = Append(Append(t, x), y)
  PROVE  SubSeq(u, 1, Len(t)) = t
<1> DEFINE n == Len(t)
           v == SubSeq(u, 1, n)
<1>1. CASE u = t
  BY <1>1
<1>2. CASE u = Append(t, x) \/ u = Append(Append(t, x), y)
  <2>1. /\ n \in Nat /\ DOMAIN t = 1..n
        /\ Len(u) >= n
        /\ \A i \in 1..n : u[i] = t[i]
    <3>1. /\ n \in Nat /\ DOMAIN t = 1..n
          /\ \A i \in 1..n : u[i] = t[i]
          /\ Len(u) = n + 1 \/ Len(u) = n + 2
      BY <1>2, Extended
    <3> QED
      BY <3>1
  <2>2. u \in Seq(Transition)
    BY <1>2
  <2>3. v \in Seq(Transition) /\ Len(v) = n /\ \A i \in 1..n : v[i] = u[i]
    BY <2>1, <2>2
  <2> QED
    BY <2>1, <2>3
<1> QED
  BY <1>1, <1>2

(* EnvelopeHolds: an observation inside the migration envelope never moves *)
(* the authority, and no step rewrites or removes recorded history.        *)
THEOREM EnvelopeTheorem == Spec => EnvelopeHolds
<1> DEFINE Inside(o) == /\ active # NoMRZ
                        /\ LowerMigrationBoundary(active) <= o.price
                        /\ o.price <= UpperMigrationBoundary(active)
           Kept == \A o \in seen' \ seen :
                     /\ Inside(o) => SameAuthority(active', active) /\ UNCHANGED transitions
                     /\ SubSeq(transitions', 1, Len(transitions)) = transitions
<1>1. TypeOK /\ [Next]_vars => [Kept]_vars
  <2> SUFFICES ASSUME TypeOK, NEW o \in Observation, Deliver(o) PROVE Kept
    BY DEF Next
  <2>1. seen' = seen \cup {o}
    BY DEF Deliver
  <2>2. /\ transitions \in Seq(Transition)
        /\ active \in MRZ \cup {NoMRZ}
    BY DEF TypeOK
  <2>3. ASSUME Inside(o) PROVE SameAuthority(active', active) /\ UNCHANGED transitions
    <3>1. active \in MRZ
      BY <2>2, <2>3
    <3>2. ExternalSide(active, o.price) = "NONE"
      <4>1. o.price \in Int
        BY ObservationAssumption
      <4>2. /\ LowerMigrationBoundary(active) \in Int
            /\ UpperMigrationBoundary(active) \in Int
        BY <3>1 DEF MRZ, LowerMigrationBoundary, UpperMigrationBoundary, EffectiveWidth
      <4> QED
        BY <2>3, <4>1, <4>2 DEF ExternalSide
    <3>3. Stays(Before_, After_) \/ Supports(Before_, After_)
      BY <2>3, <3>2, DeliverCases DEF Activates, Migrates, Before_, Result
    <3>4. CASE Stays(Before_, After_)
      BY <3>4 DEF Stays, Before_, After_, Result, SameAuthority
    <3>5. CASE Supports(Before_, After_)
      BY <3>1, <3>5 DEF Supports, Before_, After_, Result, SameAuthority, AuthoritySignature, MRZ
    <3> QED
      BY <3>3, <3>4, <3>5
  <2>4. SubSeq(transitions', 1, Len(transitions)) = transitions
    <3>1. o.id \in Int
      BY ObservationAssumption
    <3>2. CASE UNCHANGED transitions
      BY <2>2, <3>2
    <3>3. ASSUME NEW p \in Observation, Activated(p)
          PROVE  SubSeq(transitions', 1, Len(transitions)) = transitions
      <4>1. PICK m \in MRZ :
              transitions' = Append(transitions, Recorded("MRZ_ACTIVATED", p, NoMRZ, m))
        BY <3>3 DEF Activated
      <4>2. Recorded("MRZ_ACTIVATED", p, NoMRZ, m) \in Transition
        BY ObservationAssumption DEF Transition, Recorded
      <4> QED
        BY <2>2, <4>1, <4>2, HistoryKept
    <3>4. ASSUME NEW p \in Observation, Migrated(p)
          PROVE  SubSeq(transitions', 1, Len(transitions)) = transitions
      <4>1. PICK m \in MRZ :
              LET moved == Append(transitions, Recorded("MRZ_MIGRATED", p, active, m))
              IN  \/ transitions' = moved
                  \/ transitions' = Append(moved, Recorded("ROUTE_CHANGED", p, active, m))
        BY <3>4 DEF Migrated
      <4>2. /\ Recorded("MRZ_MIGRATED", p, active, m) \in Transition
            /\ Recorded("ROUTE_CHANGED", p, active, m) \in Transition
        BY <3>4, ObservationAssumption DEF Migrated, Transition, Recorded
      <4> QED
        BY <2>2, <4>1, <4>2, HistoryKept
    <3> QED
      BY <3>2, <3>3, <3>4, NextCases DEF Next, Supported
  <2> QED
    BY <2>1, <2>3, <2>4
<1> QED
  BY <1>1, TypeCorrect, PTL DEF Spec, EnvelopeHolds
------------------------------------------------------------------------------

(* Of the storable sets of which something is wrong, one has no smaller    *)
(* such part.                                                              *)
LEMMA SmallestExists ==
  ASSUME NEW Bad \in SUBSET Evidence, Bad # {}
  PROVE  \E S \in Bad : \A T \in SUBSET S : T # S => T \notin Bad
<1> DEFINE R == StrictSubsetOrdering(Observation)
<1>1. IsWellFoundedOn(R, Evidence)
  BY FS_StrictSubsetOrderingWellFounded DEF Evidence
<1>2. PICK S \in Bad : \A T \in Bad : ~ (<<T, S>> \in R)
  BY <1>1, WFMin
<1>3. ASSUME NEW T \in SUBSET S, T # S, T \in Bad PROVE <<T, S>> \in R
  BY <1>3 DEF StrictSubsetOrdering, Evidence, FiniteSubsetsOf
<1> HIDE DEF R
<1>4. \A T \in SUBSET S : T # S => T \notin Bad
  BY <1>2, <1>3
<1> QED
  BY <1>4

(* The replay order is a strict total order.                               *)
LEMMA BeforeIsAnOrder ==
  ASSUME NEW a \in Observation, NEW b \in Observation, NEW c \in Observation
  PROVE  /\ ~Before(a, a)
         /\ ~(Before(a, b) /\ Before(b, a))
         /\ Before(a, b) /\ Before(b, c) => Before(a, c)
         /\ a # b => Before(a, b) \/ Before(b, a)
BY ObservationAssumption DEF Before

(* Every non-empty set that can be stored has a newest and an oldest       *)
(* observation, and NewestOf is the former.                                *)
LEMMA NewestExists ==
  ASSUME NEW S \in Evidence, S # {}
  PROVE  /\ NewestOf(S) \in S
         /\ \A p \in S \ {NewestOf(S)} : Before(p, NewestOf(S))
<1> DEFINE Has(T) == \E o \in T : \A p \in T \ {o} : Before(p, o)
           Bad == {T \in Evidence : T # {} /\ ~Has(T)}
<1>1. Bad = {}
  <2> SUFFICES ASSUME Bad # {} PROVE FALSE
    OBVIOUS
  <2>1. PICK T \in Bad : \A U \in SUBSET T : U # T => U \notin Bad
    BY SmallestExists
  <2>2. PICK x : x \in T
    OBVIOUS
  <2>3. T \subseteq Observation /\ T \ {x} \in Evidence
    BY Parts
  <2>4. CASE T \ {x} = {}
    BY <2>2, <2>4
  <2>5. CASE T \ {x} # {}
    <3>0. T \ {x} \in SUBSET T /\ T \ {x} # T
      BY <2>2
    <3>1. PICK y \in T \ {x} : \A p \in (T \ {x}) \ {y} : Before(p, y)
      <4>1. T \ {x} \notin Bad
        BY <2>1, <3>0
      <4> QED
        BY <2>3, <2>5, <4>1
    <3>2. CASE Before(x, y)
      <4>1. \A p \in T \ {y} : Before(p, y)
        BY <3>1, <3>2
      <4> QED
        BY <3>1, <4>1
    <3>3. CASE Before(y, x)
      <4>1. \A p \in T \ {x} : Before(p, x)
        BY <2>2, <2>3, <3>1, <3>3, BeforeIsAnOrder
      <4> QED
        BY <2>2, <4>1
    <3> QED
      BY <2>2, <2>3, <3>2, <3>3, BeforeIsAnOrder
  <2> QED
    BY <2>4, <2>5
<1>2. Has(S)
  BY <1>1
<1> QED
  BY <1>2 DEF NewestOf

(* The observation all others are before is the newest.                    *)
LEMMA NewestIsUnique ==
  ASSUME NEW S \in Evidence, NEW o \in S, \A p \in S \ {o} : Before(p, o)
  PROVE  NewestOf(S) = o
<1>1. /\ NewestOf(S) \in S
      /\ \A p \in S \ {NewestOf(S)} : Before(p, NewestOf(S))
  BY NewestExists
<1>2. S \subseteq Observation
  BY Parts
<1> QED
  BY <1>1, <1>2, BeforeIsAnOrder

(* Every non-empty set that can be stored has an oldest observation.       *)
LEMMA OldestExists ==
  ASSUME NEW S \in Evidence, S # {}
  PROVE  \E o \in S : \A p \in S \ {o} : Before(o, p)
<1> DEFINE Has(T) == \E o \in T : \A p \in T \ {o} : Before(o, p)
           Bad == {T \in Evidence : T # {} /\ ~Has(T)}
<1> SUFFICES ASSUME Bad # {} PROVE FALSE
  OBVIOUS
<1>1. PICK T \in Bad : \A U \in SUBSET T : U # T => U \notin Bad
  BY SmallestExists
<1>2. /\ NewestOf(T) \in T
      /\ \A p \in T \ {NewestOf(T)} : Before(p, NewestOf(T))
  BY <1>1, NewestExists
<1>3. T \ {NewestOf(T)} \in Evidence
  BY Parts
<1>4. T \ {NewestOf(T)} # {}
  BY <1>1, <1>2
<1>5. Has(T \ {NewestOf(T)})
  <2>1. T \ {NewestOf(T)} \in SUBSET T /\ T \ {NewestOf(T)} # T
    BY <1>2
  <2>2. T \ {NewestOf(T)} \notin Bad
    BY <1>1, <2>1
  <2> QED
    BY <1>3, <1>4, <2>2
<1> QED
  BY <1>1, <1>2, <1>5
------------------------------------------------------------------------------
\* The body of the replay's loop, and what its recursive function satisfies.
NewestStep(r, T, promo) ==
  ReplayStep(r, RouteDeque(T, NewestOf(T).route), NewestOf(T), promo)

Loop(g, S, promo) ==
  g = [T \in SUBSET S |->
         IF T = {} THEN Result(NoMRZ, <<>>)
         ELSE NewestStep(g[T \ {NewestOf(T)}], T, promo)]

(* Replay is the value of the loop function at the set.                    *)
LEMMA ReplayIsLoop ==
  ASSUME NEW S, NEW promo
  PROVE  Replay(S, promo) = (CHOOSE g : Loop(g, S, promo))[S]
BY DEF Replay, Loop, NewestStep

(* Two functions that satisfy the loop agree where both are defined.       *)
LEMMA LoopsAgree ==
  ASSUME NEW S \in Evidence, NEW T \in SUBSET S, NEW promo, NEW g, NEW h,
         Loop(g, S, promo), Loop(h, T, promo)
  PROVE  \A U \in SUBSET T : g[U] = h[U]
<1> DEFINE Bad == {U \in SUBSET T : g[U] # h[U]}
<1> SUFFICES ASSUME Bad # {} PROVE FALSE
  OBVIOUS
<1>1. Bad \in SUBSET Evidence
  BY Parts
<1>2. PICK U \in Bad : \A V \in SUBSET U : V # U => V \notin Bad
  BY <1>1, SmallestExists
<1>3. U \in SUBSET S /\ U \in SUBSET T /\ U \in Evidence
  BY <1>1
<1>4. /\ g[U] = IF U = {} THEN Result(NoMRZ, <<>>)
                ELSE NewestStep(g[U \ {NewestOf(U)}], U, promo)
      /\ h[U] = IF U = {} THEN Result(NoMRZ, <<>>)
                ELSE NewestStep(h[U \ {NewestOf(U)}], U, promo)
  BY <1>3 DEF Loop
<1>5. U # {} => g[U \ {NewestOf(U)}] = h[U \ {NewestOf(U)}]
  <2> SUFFICES ASSUME U # {} PROVE g[U \ {NewestOf(U)}] = h[U \ {NewestOf(U)}]
    OBVIOUS
  <2>1. U \ {NewestOf(U)} \in SUBSET U /\ U \ {NewestOf(U)} # U
    BY <1>3, NewestExists
  <2>2. U \ {NewestOf(U)} \notin Bad
    BY <1>2, <2>1
  <2>3. U \ {NewestOf(U)} \in SUBSET T
    BY <1>3
  <2> QED
    BY <2>2, <2>3
<1> QED
  BY <1>4, <1>5

(* Where the loop function exists, for the set and without its newest      *)
(* observation, Replay is one step from the replay without it.             *)
LEMMA EquationWhereDefined ==
  ASSUME NEW S \in Evidence, NEW promo,
         \E g : Loop(g, S, promo),
         S # {} => \E g : Loop(g, S \ {NewestOf(S)}, promo)
  PROVE  Replay(S, promo) =
           IF S = {} THEN Result(NoMRZ, <<>>)
           ELSE NewestStep(Replay(S \ {NewestOf(S)}, promo), S, promo)
<1> DEFINE g == CHOOSE f : Loop(f, S, promo)
           T == S \ {NewestOf(S)}
           h == CHOOSE f : Loop(f, T, promo)
<1>1. Loop(g, S, promo)
  OBVIOUS
<1>2. Replay(S, promo) = g[S] /\ Replay(T, promo) = h[T]
  BY ReplayIsLoop
<1>3. S # {} => Loop(h, T, promo)
  OBVIOUS
<1> HIDE DEF g, h
<1>4. S # {} => g[T] = h[T]
  BY <1>1, <1>3, LoopsAgree
<1>5. g[S] = IF S = {} THEN Result(NoMRZ, <<>>) ELSE NewestStep(g[T], S, promo)
  BY <1>1 DEF Loop
<1> QED
  BY <1>2, <1>4, <1>5

(* On a finite set the loop function exists.                               *)
LEMMA LoopExists ==
  ASSUME NEW S \in Evidence, NEW promo
  PROVE  \E g : Loop(g, S, promo)
<1> DEFINE Bad == {T \in Evidence : ~\E g : Loop(g, T, promo)}
<1> SUFFICES ASSUME Bad # {} PROVE FALSE
  OBVIOUS
<1>1. PICK T \in Bad : \A U \in SUBSET T : U # T => U \notin Bad
  BY SmallestExists
<1>2. \A U \in SUBSET T : U \in Evidence
  BY Parts
<1>3. ASSUME NEW U \in SUBSET T, U # T PROVE \E g : Loop(g, U, promo)
  BY <1>1, <1>2, <1>3
<1> DEFINE Value(U) == IF U = {} THEN Result(NoMRZ, <<>>)
                       ELSE NewestStep(Replay(U \ {NewestOf(U)}, promo), U, promo)
           f == [U \in SUBSET T |-> Value(U)]
<1>4. ASSUME NEW U \in SUBSET T, U # {}
      PROVE  /\ U \ {NewestOf(U)} \in SUBSET T
             /\ U \ {NewestOf(U)} # T
  <2>1. NewestOf(U) \in U
    BY <1>2, <1>4, NewestExists
  <2> QED
    BY <2>1
<1>5. ASSUME NEW U \in SUBSET T, U # T PROVE Replay(U, promo) = f[U]
  <2>1. \E g : Loop(g, U, promo)
    BY <1>3, <1>5
  <2>2. U # {} => \E g : Loop(g, U \ {NewestOf(U)}, promo)
    BY <1>3, <1>4
  <2>3. Replay(U, promo) = Value(U)
    BY <1>2, <2>1, <2>2, EquationWhereDefined
  <2> QED
    BY <2>3
<1>6. ASSUME NEW U \in SUBSET T, U # {}
      PROVE  f[U] = NewestStep(f[U \ {NewestOf(U)}], U, promo)
  <2>1. f[U] = Value(U)
    OBVIOUS
  <2>2. Replay(U \ {NewestOf(U)}, promo) = f[U \ {NewestOf(U)}]
    BY <1>4, <1>5, <1>6
  <2> HIDE DEF f
  <2> QED
    BY <1>6, <2>1, <2>2
<1>7. {} \in SUBSET T => f[{}] = Result(NoMRZ, <<>>)
  OBVIOUS
<1>8. f = [U \in SUBSET T |-> f[U]]
  OBVIOUS
<1> HIDE DEF f
<1>9. Loop(f, T, promo)
  BY <1>6, <1>7, <1>8 DEF Loop
<1> QED
  BY <1>1, <1>9

(* replay_symbol: the result for a set of observations is that of the loop *)
(* for all but the newest, taken one step further by the newest.           *)
LEMMA ReplayEquation ==
  ASSUME NEW S \in Evidence, NEW promo
  PROVE  /\ S = {} => Replay(S, promo) = Result(NoMRZ, <<>>)
         /\ S # {} => Replay(S, promo) =
                        NewestStep(Replay(S \ {NewestOf(S)}, promo), S, promo)
<1>1. \E g : Loop(g, S, promo)
  BY LoopExists
<1>2. S \ {NewestOf(S)} \in Evidence
  BY Parts
<1>3. \E g : Loop(g, S \ {NewestOf(S)}, promo)
  BY <1>2, LoopExists
<1> QED
  BY <1>1, <1>3, EquationWhereDefined

(* An observation that is newer than all others is the last step.          *)
LEMMA ReplayInOrder ==
  ASSUME NEW S \in Evidence, NEW o \in Observation, NEW promo,
         \A p \in S : Before(p, o)
  PROVE  Replay(S \cup {o}, promo) =
           ReplayStep(Replay(S, promo), RouteDeque(S \cup {o}, o.route), o, promo)
<1>1. S \cup {o} \in Evidence
  BY Parts
<1>2. o \notin S
  BY BeforeIsAnOrder
<1>3. NewestOf(S \cup {o}) = o
  BY <1>1, NewestIsUnique
<1>4. (S \cup {o}) \ {o} = S
  BY <1>2
<1>5. Replay(S \cup {o}, promo) =
        NewestStep(Replay((S \cup {o}) \ {NewestOf(S \cup {o})}, promo), S \cup {o}, promo)
  BY <1>1, ReplayEquation
<1> QED
  BY <1>3, <1>4, <1>5 DEF NewestStep
------------------------------------------------------------------------------
Iterates(r, q, o) == Stays(r, q) \/ Activates(r, q, o) \/ Supports(r, q) \/ Migrates(r, q, o)

(* An iteration only adds entries, for its observation, to the history.    *)
LEMMA IterationExtends ==
  ASSUME NEW r, NEW q, NEW o \in Observation, ReplayState(r), Iterates(r, q, o)
  PROVE  /\ Len(r.transitions) <= Len(q.transitions)
         /\ \A i \in 1..Len(r.transitions) : q.transitions[i] = r.transitions[i]
         /\ \A i \in Len(r.transitions) + 1 .. Len(q.transitions) :
              /\ q.transitions[i].trigger = o.id
              /\ q.transitions[i].type = "MRZ_MIGRATED" =>
                   Beyond(q.transitions[i].old, q.transitions[i].new)
<1> DEFINE t == r.transitions
           u == q.transitions
<1>1. t \in Seq(Transition) /\ o.id \in Int
  BY ObservationAssumption DEF ReplayState
<1>2. CASE Stays(r, q) \/ Supports(r, q)
  <2>1. u = t
    BY <1>2 DEF Stays, Supports, Result
  <2> QED
    BY <1>1, <2>1
<1>3. CASE Activates(r, q, o)
  <2>1. PICK m \in MRZ : u = Append(t, Recorded("MRZ_ACTIVATED", o, NoMRZ, m))
    BY <1>3 DEF Activates, Result
  <2> DEFINE x == Recorded("MRZ_ACTIVATED", o, NoMRZ, m)
  <2>2. x.trigger = o.id /\ x.type = "MRZ_ACTIVATED"
    BY DEF Recorded
  <2>3. u = Append(t, x)
    BY <2>1
  <2> HIDE DEF x
  <2>4. /\ Len(u) = Len(t) + 1 /\ u[Len(t) + 1] = x
        /\ \A i \in 1..Len(t) : u[i] = t[i]
    BY <1>1, <2>3
  <2> QED
    BY <1>1, <2>2, <2>4
<1>4. CASE Migrates(r, q, o)
  <2>1. PICK m \in MRZ : Beyond(r.active, m) /\ q = MigrateTo(r, o, m)
    BY <1>4 DEF Migrates
  <2> DEFINE x == Recorded("MRZ_MIGRATED", o, r.active, m)
             y == Recorded("ROUTE_CHANGED", o, r.active, m)
  <2>2. /\ x.trigger = o.id /\ x.old = r.active /\ x.new = m
        /\ y.trigger = o.id /\ y.type = "ROUTE_CHANGED"
    BY DEF Recorded
  <2>3. u = Append(t, x) \/ u = Append(Append(t, x), y)
    BY <2>1 DEF MigrateTo, Result
  <2> HIDE DEF x, y
  <2> HIDE DEF t, u
  <2>4. /\ \/ Len(u) = Len(t) + 1
           \/ Len(u) = Len(t) + 2 /\ u[Len(t) + 2] = y
        /\ u[Len(t) + 1] = x
        /\ \A i \in 1..Len(t) : u[i] = t[i]
    <3>1. CASE u = Append(t, x)
      BY <1>1, <3>1
    <3>2. CASE u = Append(Append(t, x), y)
      BY <1>1, <3>2
    <3> QED
      BY <2>3, <3>1, <3>2
  <2>5. \A i \in Len(t) + 1 .. Len(u) : u[i] = x \/ u[i] = y
    BY <1>1, <2>4
  <2>6. \A i \in Len(t) + 1 .. Len(u) :
          u[i].trigger = o.id /\ (u[i].type = "MRZ_MIGRATED" => Beyond(u[i].old, u[i].new))
    BY <2>1, <2>2, <2>5
  <2>7. Len(t) <= Len(u) /\ \A i \in 1..Len(t) : u[i] = t[i]
    BY <1>1, <2>4
  <2> QED
    BY <2>6, <2>7 DEF t, u
<1> QED
  BY <1>2, <1>3, <1>4 DEF Iterates

(* An authority is never lost, and its successors keep its source.         *)
LEMMA IterationKeepsAuthority ==
  ASSUME NEW r, NEW q, NEW o, ReplayState(r), Iterates(r, q, o), r.active # NoMRZ
  PROVE  q.active # NoMRZ /\ q.active.source = r.active.source
<1>1. r.active \in MRZ
  BY DEF ReplayState
<1>2. /\ [r.active EXCEPT !.supporting = @ + 1] \in MRZ
      /\ [r.active EXCEPT !.supporting = @ + 1].source = r.active.source
  BY <1>1 DEF MRZ
<1>3. \A m \in MRZ : m # NoMRZ
  BY NoMRZAssumption
<1>4. CASE Stays(r, q)
  BY <1>4 DEF Stays
<1>5. CASE Supports(r, q)
  BY <1>2, <1>3, <1>5 DEF Supports, Result
<1>6. CASE Migrates(r, q, o)
  BY <1>3, <1>6 DEF Migrates, MigrateTo, Result
<1> QED
  BY <1>4, <1>5, <1>6 DEF Iterates, Activates

(* How a first authority comes about: the promotion seeds it at its        *)
(* trigger, else evidence qualifies.                                       *)
LEMMA FirstAuthority ==
  ASSUME NEW r, ReplayState(r), r.active = NoMRZ,
         NEW window \in Evidence, NEW o \in Observation,
         NEW promo \in MRZ \cup {NoMRZ}
  PROVE  LET q == ReplayStep(r, window, o, promo)
             activation(m) == Result(m, Append(r.transitions, Recorded("MRZ_ACTIVATED", o, NoMRZ, m)))
         IN  /\ promo # NoMRZ /\ o.id = promo.trigger => q = activation(promo)
             /\ ~(promo # NoMRZ /\ o.id = promo.trigger) =>
                  IF QualifiesFor(Evaluate(window, o.route), o)
                  THEN \E m \in MRZ : m.source = "PRODUCTION_QUALIFIED" /\ q = activation(m)
                  ELSE q = r
<1> DEFINE e == Evaluate(window, o.route)
           built == BuildActiveMRZ(o, e, "PRODUCTION_QUALIFIED")
           seeded == promo # NoMRZ /\ o.id = promo.trigger
           m == IF seeded THEN promo ELSE IF QualifiesFor(e, o) THEN built ELSE NoMRZ
           q == ReplayStep(r, window, o, promo)
<1> DEFINE activation(x) ==
             Result(x, Append(r.transitions, Recorded("MRZ_ACTIVATED", o, NoMRZ, x)))
<1>1. q = IF m = NoMRZ THEN r ELSE activation(m)
  BY DEF ReplayStep, WithoutAuthority
<1>2. QualifiesFor(e, o) => built \in MRZ /\ built.source = "PRODUCTION_QUALIFIED"
  BY BuiltAuthority DEF Sources
<1>3. QualifiesFor(e, o) => built # NoMRZ
  BY <1>2, NoMRZAssumption
<1> HIDE DEF q, built, e, activation
<1>4. seeded => q = activation(promo)
  BY <1>1
<1>5. ~seeded /\ QualifiesFor(e, o) => q = activation(built)
  BY <1>1, <1>3
<1>6. ~seeded /\ ~QualifiesFor(e, o) => q = r
  BY <1>1
<1>7. ~seeded => IF QualifiesFor(e, o)
                 THEN \E x \in MRZ : x.source = "PRODUCTION_QUALIFIED" /\ q = activation(x)
                 ELSE q = r
  BY <1>2, <1>5, <1>6
<1> QED
  BY <1>4, <1>7 DEF q, e, activation
------------------------------------------------------------------------------
\* What an operator may have promoted, and where it seeds the replay.
Seed == {m \in MRZ : m.source = "OPERATOR_PROMOTED"} \cup {NoMRZ}
Seeds(promo, t) == promo # NoMRZ /\ t.id = promo.trigger

(* What every replay of S has: a chain of entries with triggers in S whose *)
(* migrations leave the envelope; an authority once the promotion's        *)
(* trigger is replayed; and, if the authority goes back to the promotion,  *)
(* a history that begins with it and goes on after it.                     *)
FromPromotion(r, S, promo) ==
  \E t \in S :
    /\ Seeds(promo, t)
    /\ r.transitions[1] = Recorded("MRZ_ACTIVATED", t, NoMRZ, promo)
    /\ \A i \in 2..Len(r.transitions) :
         \E x \in S : x.id = r.transitions[i].trigger /\ Before(t, x)

Caused(r, S) ==
  \A i \in 1..Len(r.transitions) :
    /\ \E x \in S : x.id = r.transitions[i].trigger
    /\ r.transitions[i].type = "MRZ_MIGRATED" =>
         Beyond(r.transitions[i].old, r.transitions[i].new)

Shape(r, S, promo) ==
  /\ ReplayState(r)
  /\ r = Result(r.active, r.transitions)
  /\ Chain(r.active, r.transitions)
  /\ Caused(r, S)
  /\ (\E t \in S : Seeds(promo, t)) => r.active # NoMRZ
  /\ r.active # NoMRZ /\ r.active.source = "OPERATOR_PROMOTED" => FromPromotion(r, S, promo)

(* The replay of one observation more, later than all before, keeps the    *)
(* shape.                                                                  *)
LEMMA ShapeStep ==
  ASSUME NEW S \in Evidence, NEW o \in Observation, \A p \in S : Before(p, o),
         NEW promo \in Seed, NEW r, Shape(r, S, promo),
         NEW window \in Evidence
  PROVE  Shape(ReplayStep(r, window, o, promo), S \cup {o}, promo)
<1> DEFINE q == ReplayStep(r, window, o, promo)
           t == r.transitions
           u == q.transitions
           S2 == S \cup {o}
<1>1. ReplayState(r) /\ promo \in MRZ \cup {NoMRZ}
  BY DEF Shape, Seed
<1>2. Iterates(r, q, o)
  BY <1>1, StepCases DEF Iterates
<1>a. r.active = NoMRZ /\ Seeds(promo, o) =>
        q.active = promo /\ u = Append(t, Recorded("MRZ_ACTIVATED", o, NoMRZ, promo))
  <2> SUFFICES ASSUME r.active = NoMRZ, Seeds(promo, o)
               PROVE  q = Result(promo, Append(t, Recorded("MRZ_ACTIVATED", o, NoMRZ, promo)))
    BY DEF Result
  <2> QED
    BY <1>1, FirstAuthority DEF Seeds
<1>b. r.active = NoMRZ /\ ~Seeds(promo, o) =>
        q.active = NoMRZ \/ q.active.source = "PRODUCTION_QUALIFIED"
  <2> SUFFICES ASSUME r.active = NoMRZ, ~Seeds(promo, o)
               PROVE  q.active = NoMRZ \/ q.active.source = "PRODUCTION_QUALIFIED"
    OBVIOUS
  <2>1. \/ q = r
        \/ \E m \in MRZ : /\ m.source = "PRODUCTION_QUALIFIED"
                         /\ q = Result(m, Append(t, Recorded("MRZ_ACTIVATED", o, NoMRZ, m)))
    BY <1>1, FirstAuthority DEF Seeds
  <2> QED
    BY <2>1 DEF Result
<1> HIDE DEF q
<1>3. ReplayState(q) /\ Chain(q.active, q.transitions)
  BY <1>1, <1>2, IterationKeepsState, IterationKeepsChain DEF Iterates, Shape
<1>4. q = Result(q.active, q.transitions)
  BY <1>2 DEF Iterates, Stays, Activates, Supports, Migrates, MigrateTo, Result, Shape
<1>5. /\ Len(t) <= Len(u)
      /\ \A i \in 1..Len(t) : u[i] = t[i]
      /\ \A i \in Len(t) + 1 .. Len(u) :
           /\ u[i].trigger = o.id
           /\ u[i].type = "MRZ_MIGRATED" => Beyond(u[i].old, u[i].new)
  BY <1>1, <1>2, IterationExtends
<1>6. Len(t) \in Nat /\ Len(u) \in Nat /\ DOMAIN u = 1..Len(u) /\ DOMAIN t = 1..Len(t)
  BY <1>1, <1>3 DEF ReplayState
<1>7. \A i \in 1..Len(u) : i \in 1..Len(t) \/ i \in Len(t) + 1 .. Len(u)
  BY <1>6
<1>8. Caused(q, S2)
  BY <1>5, <1>7 DEF Shape, Caused
<1>9. r.active # NoMRZ => q.active # NoMRZ /\ q.active.source = r.active.source
  BY <1>1, <1>2, IterationKeepsAuthority
<1>10. (\E x \in S2 : Seeds(promo, x)) => q.active # NoMRZ
  <2> SUFFICES ASSUME NEW x \in S2, Seeds(promo, x), r.active = NoMRZ PROVE q.active # NoMRZ
    BY <1>9
  <2>1. x = o
    BY DEF Shape
  <2> QED
    BY <1>a, <2>1 DEF Seeds
<1>11. ASSUME q.active # NoMRZ, q.active.source = "OPERATOR_PROMOTED"
       PROVE  FromPromotion(q, S2, promo)
  <2>1. CASE r.active = NoMRZ
    <3>1. t = <<>>
      BY <2>1 DEF Shape, Chain
    <3>2. Seeds(promo, o)
      BY <1>b, <1>11, <2>1
    <3>3. u = <<Recorded("MRZ_ACTIVATED", o, NoMRZ, promo)>>
      BY <1>a, <2>1, <3>1, <3>2
    <3> QED
      BY <3>2, <3>3 DEF FromPromotion
  <2>2. CASE r.active # NoMRZ
    <3>2. r.active.source = q.active.source
      BY <1>9, <2>2
    <3>3. PICK x \in S :
            /\ Seeds(promo, x)
            /\ t[1] = Recorded("MRZ_ACTIVATED", x, NoMRZ, promo)
            /\ \A i \in 2..Len(t) : \E y \in S : y.id = t[i].trigger /\ Before(x, y)
      BY <1>11, <2>2, <3>2 DEF Shape, FromPromotion
    <3>4. 1 \in 1..Len(t)
      <4>1. t # <<>>
        BY <2>2 DEF Shape, Chain
      <4> QED
        BY <1>1, <4>1 DEF ReplayState
    <3>5. u[1] = t[1]
      BY <1>5, <3>4
    <3>6. ASSUME NEW i \in 2..Len(u)
          PROVE  \E y \in S2 : y.id = u[i].trigger /\ Before(x, y)
      <4>1. CASE i \in 1..Len(t)
        <5>1. i \in 2..Len(t)
          BY <1>6, <3>6, <4>1
        <5> QED
          BY <1>5, <3>3, <4>1, <5>1
      <4>2. CASE i \in Len(t) + 1 .. Len(u)
        BY <1>5, <4>2
      <4> QED
        BY <1>6, <1>7, <4>1, <4>2
    <3> QED
      BY <3>3, <3>5, <3>6 DEF FromPromotion
  <2> QED
    BY <2>1, <2>2
<1> QED
  BY <1>3, <1>4, <1>8, <1>10, <1>11 DEF Shape, q

(* Every replay has that shape.                                            *)
LEMMA ReplayShape ==
  ASSUME NEW S \in Evidence, NEW promo \in Seed
  PROVE  Shape(Replay(S, promo), S, promo)
<1> DEFINE Bad == {T \in Evidence : ~Shape(Replay(T, promo), T, promo)}
<1> SUFFICES ASSUME Bad # {} PROVE FALSE
  OBVIOUS
<1>1. PICK T \in Bad : \A U \in SUBSET T : U # T => U \notin Bad
  BY SmallestExists
<1>2. T # {}
  <2>1. CASE T = {}
    <3>1. Replay(T, promo) = Result(NoMRZ, <<>>)
      BY <2>1, ReplayEquation
    <3>2. Shape(Result(NoMRZ, <<>>), T, promo)
      BY <2>1 DEF Shape, ReplayState, Result, Chain, Caused
    <3> QED
      BY <3>1, <3>2
  <2> QED
    BY <2>1
<1> DEFINE n == NewestOf(T)
           U == T \ {n}
<1>3. /\ n \in Observation /\ n \in T
      /\ \A p \in U : Before(p, n)
  BY <1>2, NewestExists, Parts
<1>4. U \in Evidence /\ U \in SUBSET T /\ U # T /\ T = U \cup {n}
  BY <1>3, Parts
<1>5. Shape(Replay(U, promo), U, promo)
  <2>1. U \notin Bad
    BY <1>1, <1>4
  <2> QED
    BY <1>4, <2>1
<1>6. Replay(T, promo) = NewestStep(Replay(U, promo), T, promo)
  BY <1>2, ReplayEquation
<1>7. RouteDeque(T, n.route) \in Evidence
  BY DequeIsSeen, Parts
<1> HIDE DEF n, U
<1>8. Shape(NewestStep(Replay(U, promo), T, promo), U \cup {n}, promo)
  BY <1>3, <1>4, <1>5, <1>7, ShapeStep DEF NewestStep, n
<1> QED
  BY <1>4, <1>6, <1>8
------------------------------------------------------------------------------
(* promoted_active_from_row: a candidate that may be promoted becomes a    *)
(* well-formed authority of an operator, triggered by a stored row.        *)
LEMMA LeastTick ==
  ASSUME NEW S \in Evidence, S # {}
  PROVE  \E o \in S : \A p \in S : o.tick <= p.tick
<1> DEFINE Has(T) == \E o \in T : \A p \in T : o.tick <= p.tick
           Bad == {T \in Evidence : T # {} /\ ~Has(T)}
<1> SUFFICES ASSUME Bad # {} PROVE FALSE
  OBVIOUS
<1>1. PICK T \in Bad : \A U \in SUBSET T : U # T => U \notin Bad
  BY SmallestExists
<1>2. PICK x : x \in T
  OBVIOUS
<1>3. T \ {x} \in Evidence /\ \A p \in T : p.tick \in Nat
  BY Parts, ObservationAssumption
<1>4. T \ {x} \in SUBSET T /\ T \ {x} # T
  BY <1>2
<1>5. CASE T \ {x} = {}
  BY <1>2, <1>3, <1>5
<1>6. CASE T \ {x} # {}
  <2>1. T \ {x} \notin Bad
    BY <1>1, <1>4
  <2>2. PICK y \in T \ {x} : \A p \in T \ {x} : y.tick <= p.tick
    BY <1>3, <1>6, <2>1
  <2>3. CASE y.tick <= x.tick
    BY <2>2, <2>3
  <2>4. CASE x.tick <= y.tick
    <3>1. \A p \in T : x.tick <= p.tick
      BY <1>2, <1>3, <2>2, <2>4
    <3> QED
      BY <1>2, <3>1
  <2> QED
    BY <1>2, <1>3, <2>3, <2>4
<1> QED
  BY <1>5, <1>6

(* The authority written for a promotable candidate is a well-formed seed, *)
(* and its trigger is the newest stored observation of its route.          *)
LEMMA PromotedIsSeed ==
  ASSUME NEW c, seen \in Evidence, Promotable(c)
  PROVE  /\ PromotedAuthority(c) \in Seed \ {NoMRZ}
         /\ PromotedAuthority(c).owner = c.route
         /\ c.newest \in seen /\ c.newest.route = c.route
         /\ Seeds(PromotedAuthority(c), c.newest)
         /\ \A o \in seen : o.route = c.route => ~Before(c.newest, o)
<1> DEFINE m == PromotedAuthority(c)
<1>1. seen \in SUBSET Observation
  BY Parts
<1>2. /\ c.route \in Routes /\ c.lower \in Int /\ c.upper \in Int
      /\ c.newest \in seen /\ c.newest.route = c.route
      /\ \A o \in seen : o.route = c.route => ~Before(c.newest, o)
  BY <1>1, Parts, NearMissContract DEF Promotable, IsCandidate
<1>3. /\ c.newest \in c.evidence /\ c.evidence \in Evidence
      /\ StructurallyValid(c.route, c.lower + c.upper, c.newest.high, c.newest.low)
  BY Parts DEF Promotable
<1>4. m.location \in Locations
  <2>1. m.location # NoLocation
    BY <1>3 DEF StructurallyValid, PromotedAuthority
  <2> QED
    BY <2>1 DEF PromotedAuthority, ClassifyStructuralLocation, RouteLocations, Locations
<1>5. Cardinality(c.evidence) \in Nat
  BY <1>3, Parts, FS_CardinalityType
<1>6. EffectiveInstrumentTick(c.evidence) \in Nat \ {0}
  <2>1. \A x \in c.evidence : x.tick \in Nat \ {0}
    BY <1>3, Parts, ObservationAssumption
  <2>2. \E t \in {x.tick : x \in c.evidence} : \A p \in c.evidence : t <= p.tick
    BY <1>3, LeastTick
  <2>3. EffectiveInstrumentTick(c.evidence) \in {x.tick : x \in c.evidence}
    BY <2>2 DEF EffectiveInstrumentTick
  <2> QED
    BY <2>1, <2>3
<1>7. c.newest.id \in Int
  BY <1>1, <1>2, ObservationAssumption
<1>8. m \in MRZ /\ m.source = "OPERATOR_PROMOTED" /\ m.owner = c.route /\ m.trigger = c.newest.id
  BY <1>2, <1>4, <1>5, <1>6, <1>7 DEF PromotedAuthority, MRZ, Sources
<1>9. m # NoMRZ
  BY <1>8, NoMRZAssumption
<1> HIDE DEF m
<1>10. m \in Seed \ {NoMRZ} /\ Seeds(m, c.newest)
  BY <1>8, <1>9 DEF Seed, Seeds
<1> QED
  BY <1>2, <1>8, <1>10 DEF m

(* The derived rows are those of a replay of what is stored.               *)
StoreInv ==
  /\ seen \in Evidence
  /\ promotion \in Seed
  /\ Replay(seen, promotion) = Result(active, transitions)
  /\ promotion # NoMRZ => \E t \in seen : Seeds(promotion, t)
  /\ active # NoMRZ /\ promotion # NoMRZ =>
       confirmation = ProductionConfirmation(seen, promotion, transitions)

\* The same of the state after a step, once its new rows are known.
LEMMA Replaced ==
  ASSUME seen' \in Evidence, promotion' \in Seed,
         promotion' # NoMRZ => \E t \in seen' : Seeds(promotion', t),
         ReplaceDerivedState(Replay(seen', promotion'))
  PROVE  StoreInv'
<1> DEFINE r == Replay(seen', promotion')
<1>1. r = Result(r.active, r.transitions)
  BY ReplayShape DEF Shape
<1> HIDE DEF r
<1>2. active' = r.active /\ transitions' = r.transitions
  BY DEF ReplaceDerivedState, r
<1>3. Replay(seen', promotion') = Result(active', transitions')
  BY <1>1, <1>2 DEF r
<1>4. active' # NoMRZ /\ promotion' # NoMRZ =>
        confirmation' = ProductionConfirmation(seen', promotion', transitions')
  BY <1>2 DEF ReplaceDerivedState, r
<1> QED
  BY <1>3, <1>4 DEF StoreInv

(* Every action of the store keeps the invariant.                          *)
LEMMA StoreStep ==
  ASSUME StoreInv, [StoreNext]_storeVars
  PROVE  StoreInv'
<1>1. ASSUME UNCHANGED <<seen, active, transitions, promotion, confirmation>>
      PROVE  StoreInv'
  BY <1>1 DEF StoreInv
<1>2. ASSUME NEW o \in Observation, Ingest(o) PROVE StoreInv'
  <2>1. seen' = seen \cup {o} /\ promotion' = promotion
    BY <1>2 DEF Ingest
  <2>2. seen' \in Evidence
    BY <2>1, Parts DEF StoreInv
  <2>3. ReplaceDerivedState(Replay(seen', promotion'))
    BY <1>2, <2>1 DEF Ingest
  <2> QED
    BY <2>1, <2>2, <2>3, Replaced DEF StoreInv
<1>3. ASSUME Promote PROVE StoreInv'
  <2>1. /\ seen' = seen /\ promotion' = PromotedAuthority(reviewed)
        /\ Promotable(reviewed)
        /\ ReplaceDerivedState(Replay(seen', promotion'))
    BY <1>3 DEF Promote
  <2>2. promotion' \in Seed /\ \E t \in seen' : Seeds(promotion', t)
    BY <2>1, PromotedIsSeed DEF StoreInv
  <2> QED
    BY <2>1, <2>2, Replaced DEF StoreInv
<1> QED
  BY <1>1, <1>2, <1>3 DEF StoreNext, storeVars, IngestDuplicate, Review, PromoteRejected

(* The rows the store keeps are always those of a replay of the stored     *)
(* observations with the stored promotion, and the confirmation row        *)
(* follows from them.                                                      *)
THEOREM StoreInvariant == StoreSpec => []StoreInv
<1>1. StoreInit => StoreInv
  <2> SUFFICES ASSUME StoreInit PROVE StoreInv
    OBVIOUS
  <2>1. seen \in Evidence
    BY FS_EmptySet DEF StoreInit, Evidence, FiniteSubsetsOf
  <2> QED
    BY <2>1, ReplayEquation DEF StoreInit, StoreInv, Seed
<1>2. StoreInv /\ [StoreNext]_storeVars => StoreInv'
  BY StoreStep
<1> QED
  BY <1>1, <1>2, PTL DEF StoreSpec
------------------------------------------------------------------------------
(* PromotionKeepsAuthority: a promoted symbol always has an authority,     *)
(* wherever in the evidence late observations put their activations.       *)
THEOREM PromotionKeepsAuthorityTheorem == StoreSpec => []PromotionKeepsAuthority
<1>1. StoreInv => PromotionKeepsAuthority
  <2> SUFFICES ASSUME StoreInv, promotion # NoMRZ PROVE active # NoMRZ
    BY DEF PromotionKeepsAuthority
  <2>1. Shape(Result(active, transitions), seen, promotion)
    BY ReplayShape DEF StoreInv
  <2> QED
    BY <2>1 DEF StoreInv, Shape, Result
<1> QED
  BY <1>1, StoreInvariant, PTL

(* HistoryIsAChain and SuccessorIsExternal, of the stored rows: whatever   *)
(* arrives, in whatever order, and whatever is promoted, the history in    *)
(* the database is an unbroken chain that leads to the active row, and     *)
(* each of its migrations leaves the envelope.                             *)
THEOREM StoredHistoryTheorem == StoreSpec => [](HistoryIsAChain /\ SuccessorIsExternal)
<1>1. StoreInv => HistoryIsAChain /\ SuccessorIsExternal
  <2> SUFFICES ASSUME StoreInv PROVE HistoryIsAChain /\ SuccessorIsExternal
    OBVIOUS
  <2>1. Shape(Result(active, transitions), seen, promotion)
    BY ReplayShape DEF StoreInv
  <2>2. /\ transitions \in Seq(Transition)
        /\ Chain(active, transitions)
        /\ Caused(Result(active, transitions), seen)
    BY <2>1 DEF Shape, Result, ReplayState
  <2> QED
    BY <2>2 DEF HistoryIsAChain, SuccessorIsExternal, Caused, Result
<1> QED
  BY <1>1, StoreInvariant, PTL

(* InOrderStepsDeliver: an observation that is newest moves the rows as    *)
(* one iteration of the engine.                                            *)
THEOREM InOrderTheorem == StoreSpec => InOrderStepsDeliver
<1> DEFINE Delivered == \A o \in seen' \ seen : (\A p \in seen : Before(p, o)) => Deliver(o)
<1>1. StoreInv /\ [StoreNext]_storeVars => [Delivered]_storeVars
  <2> SUFFICES ASSUME StoreInv, StoreNext, NEW o \in seen' \ seen, \A p \in seen : Before(p, o)
               PROVE  Deliver(o)
    OBVIOUS
  <2>1. o \in Observation /\ Ingest(o)
    BY DEF StoreNext, Ingest, IngestDuplicate, Review, Promote, PromoteRejected, storeVars
  <2>2. /\ seen' = seen \cup {o} /\ promotion' = promotion
        /\ active' = Replay(seen', promotion).active
        /\ transitions' = Replay(seen', promotion).transitions
    BY <2>1 DEF Ingest, ReplaceDerivedState
  <2>3. Replay(seen', promotion) =
          ReplayStep(Result(active, transitions), RouteDeque(seen', o.route), o, promotion)
    BY <2>1, <2>2, ReplayInOrder DEF StoreInv
  <2> QED
    BY <2>2, <2>3 DEF Deliver
<1> QED
  BY <1>1, StoreInvariant, PTL DEF StoreSpec, InOrderStepsDeliver
------------------------------------------------------------------------------
\* The observations of S that a late o finds before itself.
Past(o, S) == {p \in S : Before(p, o)}

(* What evidence before o has caused is how every replay begins.           *)
LEMMA HistoryBeginsWithPast ==
  ASSUME NEW S \in Evidence, NEW o \in Observation, NEW promo \in Seed
  PROVE  LET h == Replay(S, promo).transitions
             g == Replay(Past(o, S), promo).transitions
         IN  /\ Len(g) <= Len(h)
             /\ \A i \in 1..Len(g) : h[i] = g[i]
             /\ \A i \in Len(g) + 1 .. Len(h) :
                  \E p \in S \ Past(o, S) : p.id = h[i].trigger
<1> DEFINE H(T) == Replay(T, promo).transitions
           D(T) == Past(o, T)
           Begins(T) ==
             /\ Len(H(D(T))) <= Len(H(T))
             /\ \A i \in 1..Len(H(D(T))) : H(T)[i] = H(D(T))[i]
             /\ \A i \in Len(H(D(T))) + 1 .. Len(H(T)) :
                  \E p \in T \ D(T) : p.id = H(T)[i].trigger
           Bad == {T \in Evidence : ~Begins(T)}
<1>h. \A T \in Evidence : /\ H(T) \in Seq(Transition) /\ Len(H(T)) \in Nat
                          /\ ReplayState(Replay(T, promo))
  <2> SUFFICES ASSUME NEW T \in Evidence
               PROVE  H(T) \in Seq(Transition) /\ ReplayState(Replay(T, promo))
    OBVIOUS
  <2>1. Shape(Replay(T, promo), T, promo)
    BY ReplayShape
  <2> QED
    BY <2>1 DEF Shape, ReplayState
<1> SUFFICES ASSUME Bad # {} PROVE FALSE
  OBVIOUS
<1>1. PICK T \in Bad : \A U \in SUBSET T : U # T => U \notin Bad
  BY SmallestExists
<1>2. T \in Evidence
  OBVIOUS
<1>3. D(T) # T
  <2>1. D(T) = T => Begins(T)
    <3> SUFFICES ASSUME D(T) = T PROVE Begins(T)
      OBVIOUS
    <3>1. H(D(T)) = H(T) /\ Len(H(T)) \in Nat
      BY <1>h
    <3> HIDE DEF H, D
    <3> QED
      BY <3>1
  <2> QED
    BY <2>1
<1>4. T # {}
  BY <1>3 DEF Past
<1> DEFINE n == NewestOf(T)
           U == T \ {n}
<1>5. /\ n \in Observation /\ n \in T
      /\ \A p \in U : Before(p, n)
  BY <1>2, <1>4, NewestExists, Parts
<1>6. U \in Evidence /\ U \in SUBSET T /\ U # T /\ T = U \cup {n}
  BY <1>2, <1>5, Parts
<1>7. n \notin D(T)
  <2>1. ASSUME Before(n, o) PROVE D(T) = T
    <3>1. \A p \in T : Before(p, o)
      BY <1>2, <1>5, <2>1, Parts, BeforeIsAnOrder
    <3> QED
      BY <3>1 DEF Past
  <2> QED
    BY <1>3, <2>1 DEF Past
<1>8. D(U) = D(T)
  BY <1>6, <1>7 DEF Past
<1>9. Begins(U)
  <2>1. U \notin Bad
    BY <1>1, <1>6
  <2> HIDE DEF U, Begins
  <2> QED
    BY <1>6, <2>1
<1>10. /\ Len(H(U)) <= Len(H(T))
       /\ \A i \in 1..Len(H(U)) : H(T)[i] = H(U)[i]
       /\ \A i \in Len(H(U)) + 1 .. Len(H(T)) : H(T)[i].trigger = n.id
  <2>1. Replay(T, promo) = ReplayStep(Replay(U, promo), RouteDeque(T, n.route), n, promo)
    BY <1>2, <1>4, ReplayEquation DEF NewestStep
  <2>2. RouteDeque(T, n.route) \in Evidence /\ promo \in MRZ \cup {NoMRZ}
    BY <1>2, DequeIsSeen, Parts DEF Seed
  <2>3. ReplayState(Replay(U, promo))
    BY <1>6, <1>h
  <2> HIDE DEF n, U
  <2>4. Iterates(Replay(U, promo), Replay(T, promo), n)
    BY <1>5, <2>1, <2>2, <2>3, StepCases DEF Iterates
  <2> QED
    BY <1>5, <2>3, <2>4, IterationExtends
<1>11. Len(H(U)) \in Nat /\ Len(H(T)) \in Nat /\ Len(H(D(T))) \in Nat
  <2>1. D(T) \in Evidence
    BY <1>2, Parts DEF Past
  <2> QED
    BY <1>2, <1>6, <1>h, <2>1
<1>12. n \in T \ D(T) /\ U \ D(U) \subseteq T \ D(T)
  BY <1>5, <1>6, <1>7, <1>8
<1> HIDE DEF H, D, n, U
<1>13. Len(H(D(T))) <= Len(H(T))
  BY <1>8, <1>9, <1>10, <1>11
<1>14. \A i \in 1..Len(H(D(T))) : H(T)[i] = H(D(T))[i]
  BY <1>8, <1>9, <1>10, <1>11
<1>15. ASSUME NEW i \in Len(H(D(T))) + 1 .. Len(H(T))
       PROVE  \E p \in T \ D(T) : p.id = H(T)[i].trigger
  <2>1. CASE i <= Len(H(U))
    <3>1. i \in Len(H(D(U))) + 1 .. Len(H(U)) /\ i \in 1..Len(H(U))
      BY <1>8, <1>11, <2>1
    <3> QED
      BY <1>9, <1>10, <1>12, <3>1
  <2>2. CASE i > Len(H(U))
    <3>1. i \in Len(H(U)) + 1 .. Len(H(T))
      BY <1>11, <2>2
    <3> QED
      BY <1>10, <1>12, <3>1
  <2> QED
    BY <1>11, <2>1, <2>2
<1> QED
  BY <1>13, <1>14, <1>15

(* The entries caused before an observation are the replay of what is      *)
(* before it.                                                              *)
LEMMA SettledIsPast ==
  ASSUME NEW S \in Evidence, NEW o \in Observation, NEW promo \in Seed
  PROVE  Settled(o, Replay(S, promo).transitions, S) =
           1..Len(Replay(Past(o, S), promo).transitions)
<1> DEFINE h == Replay(S, promo).transitions
           D == Past(o, S)
           g == Replay(D, promo).transitions
<1>1. D \in Evidence /\ D \subseteq S /\ S \subseteq Observation
  BY Parts DEF Past
<1>2. /\ Shape(Replay(S, promo), S, promo)
      /\ Shape(Replay(D, promo), D, promo)
  BY <1>1, ReplayShape
<1>3. /\ h \in Seq(Transition) /\ g \in Seq(Transition)
      /\ \A i \in 1..Len(g) : \E p \in D : p.id = g[i].trigger
  BY <1>2 DEF Shape, ReplayState, Caused
<1>4. /\ Len(g) <= Len(h)
      /\ \A i \in 1..Len(g) : h[i] = g[i]
      /\ \A i \in Len(g) + 1 .. Len(h) : \E p \in S \ D : p.id = h[i].trigger
  BY HistoryBeginsWithPast
<1> HIDE DEF g, h, D
<1>5. Len(g) \in Nat /\ Len(h) \in Nat /\ DOMAIN h = 1..Len(h)
  BY <1>3
<1>6. ASSUME NEW i \in 1..Len(g) PROVE i \in Settled(o, h, S)
  <2>1. \E p \in D : p.id = h[i].trigger
    BY <1>3, <1>4
  <2>2. i \in DOMAIN h
    BY <1>4, <1>5
  <2> QED
    BY <1>1, <2>1, <2>2 DEF Settled, Past, D
<1>7. ASSUME NEW i \in Settled(o, h, S) PROVE i \in 1..Len(g)
  <2>1. i \in 1..Len(h)
    BY <1>5 DEF Settled
  <2>2. PICK p \in S : p.id = h[i].trigger /\ Before(p, o)
    BY DEF Settled
  <2>3. CASE i \in Len(g) + 1 .. Len(h)
    <3>1. PICK q \in S \ D : q.id = h[i].trigger
      BY <1>4, <2>3
    <3>2. q = p
      BY <1>1, <2>2, <3>1, ObservationAssumption
    <3> QED
      BY <2>2, <3>1, <3>2 DEF D, Past
  <2> QED
    BY <1>5, <2>1, <2>3
<1> QED
  BY <1>6, <1>7 DEF g, h, D

(* LateEventsKeepThePast: a late packet rewrites history from its own time *)
(* on, never what precedes it.                                             *)
THEOREM LateEventsTheorem == StoreSpec => LateEventsKeepThePast
<1> DEFINE Kept == \A o \in seen' \ seen :
             /\ Settled(o, transitions', seen') = Settled(o, transitions, seen)
             /\ \A i \in Settled(o, transitions, seen) : transitions'[i] = transitions[i]
<1>1. StoreInv /\ [StoreNext]_storeVars => [Kept]_storeVars
  <2> SUFFICES ASSUME StoreInv, StoreNext, NEW o \in seen' \ seen
               PROVE  /\ Settled(o, transitions', seen') = Settled(o, transitions, seen)
                      /\ \A i \in Settled(o, transitions, seen) :
                           transitions'[i] = transitions[i]
    OBVIOUS
  <2> DEFINE D == Past(o, seen)
             g == Replay(D, promotion).transitions
  <2>1. o \in Observation /\ Ingest(o)
    BY DEF StoreNext, Ingest, IngestDuplicate, Review, Promote, PromoteRejected, storeVars
  <2>2. /\ seen' = seen \cup {o} /\ promotion' = promotion
        /\ transitions' = Replay(seen', promotion).transitions
    BY <2>1 DEF Ingest, ReplaceDerivedState
  <2>3. /\ seen \in Evidence /\ seen' \in Evidence /\ promotion \in Seed
        /\ transitions = Replay(seen, promotion).transitions
    BY <2>1, <2>2, Parts DEF StoreInv, Result
  <2>4. Past(o, seen') = D
    BY <2>1, <2>2, BeforeIsAnOrder DEF Past
  <2>5. /\ Settled(o, transitions', seen') = 1..Len(g)
        /\ Settled(o, transitions, seen) = 1..Len(g)
    BY <2>1, <2>2, <2>3, <2>4, SettledIsPast
  <2>6. \A i \in 1..Len(g) : transitions'[i] = g[i] /\ transitions[i] = g[i]
    BY <2>1, <2>2, <2>3, <2>4, HistoryBeginsWithPast
  <2> QED
    BY <2>5, <2>6
<1> QED
  BY <1>1, StoreInvariant, PTL DEF StoreSpec, LateEventsKeepThePast
------------------------------------------------------------------------------
\* The parts of ProductionConfirmation.
EvaluationAt(S, x) == Evaluate(RouteDeque(Earlier(S, x), x.route), x.route)
QualifiedIn(S, promo, h) ==
  {x \in ConfirmationRange(S, promo, h) : QualifiesFor(EvaluationAt(S, x), x)}
First(Q) == CHOOSE x \in Q : \A p \in Q \ {x} : Before(x, p)
Confirming(S, x) ==
  [route |-> x.route, trigger |-> x.id,
   lower |-> EvaluationAt(S, x).lower, upper |-> EvaluationAt(S, x).upper]

(* The confirmation row in terms of the first qualifying observation.      *)
LEMMA ConfirmationParts ==
  ASSUME NEW S, NEW promo, NEW h
  PROVE  ProductionConfirmation(S, promo, h) =
           IF QualifiedIn(S, promo, h) = {} THEN NoConfirmation
           ELSE Confirming(S, First(QualifiedIn(S, promo, h)))
BY DEF ProductionConfirmation, QualifiedIn, First, Confirming, EvaluationAt

(* A later observation does not change which one is first.                 *)
LEMMA FirstStaysFirst ==
  ASSUME NEW Q \in Evidence, Q # {}, NEW o \in Observation, \A p \in Q : Before(p, o)
  PROVE  First(Q) \in Q /\ First(Q \cup {o}) = First(Q)
<1>1. PICK x \in Q : \A p \in Q \ {x} : Before(x, p)
  BY OldestExists
<1>2. Q \subseteq Observation
  BY Parts
<1>3. \A y \in Q : (\A p \in Q \ {y} : Before(y, p)) => y = x
  BY <1>1, <1>2, BeforeIsAnOrder
<1>4. First(Q) = x
  BY <1>1, <1>3 DEF First
<1>5. \A p \in (Q \cup {o}) \ {x} : Before(x, p)
  BY <1>1
<1>6. \A y \in Q \cup {o} : (\A p \in (Q \cup {o}) \ {y} : Before(y, p)) => y = x
  BY <1>1, <1>2, <1>5, BeforeIsAnOrder
<1>7. First(Q \cup {o}) = x
  BY <1>1, <1>5, <1>6 DEF First
<1> QED
  BY <1>1, <1>4, <1>7

(* Nor does it change an evaluation at an earlier one.                     *)
LEMMA EvaluationKept ==
  ASSUME NEW S, NEW o, NEW x \in S, Before(x, o)
  PROVE  EvaluationAt(S \cup {o}, x) = EvaluationAt(S, x)
<1>1. Earlier(S \cup {o}, x) = Earlier(S, x)
  BY DEF Earlier
<1> QED
  BY <1>1 DEF EvaluationAt

\* Migrations after the promotion's trigger, by their observations.
MigratedAfter(S, promo, h) ==
  {m \in S : /\ \E t \in S : t.id = promo.trigger /\ Before(t, m)
             /\ m.id \in MigrationTriggers(h)}

(* The newest observation, if it migrates nothing: it may confirm unless   *)
(* there is a confirmation or a migration already.                         *)
LEMMA ConfirmedWithoutMigration ==
  ASSUME NEW S \in Evidence, NEW o \in Observation, \A p \in S : Before(p, o),
         NEW promo, NEW h, o.id \notin MigrationTriggers(h)
  PROVE  \/ ProductionConfirmation(S \cup {o}, promo, h) = ProductionConfirmation(S, promo, h)
         \/ /\ ProductionConfirmation(S, promo, h) = NoConfirmation
            /\ MigratedAfter(S, promo, h) = {}
<1> DEFINE S2 == S \cup {o}
           Q == QualifiedIn(S, promo, h)
           Q2 == QualifiedIn(S2, promo, h)
<1>1. S \subseteq Observation /\ ~Before(o, o) /\ \A p \in S : ~Before(o, p)
  BY Parts, BeforeIsAnOrder
<1>2. ASSUME NEW x \in S
      PROVE  x \in ConfirmationRange(S2, promo, h) <=> x \in ConfirmationRange(S, promo, h)
  BY <1>1 DEF ConfirmationRange
<1>3. ASSUME NEW x \in S PROVE x \in Q2 <=> x \in Q
  BY <1>2, EvaluationKept DEF QualifiedIn
<1>4. Q2 \subseteq S2 /\ Q \subseteq S
  BY DEF QualifiedIn, ConfirmationRange
<1>5. MigratedAfter(S, promo, h) # {} => o \notin Q2
  BY <1>1 DEF QualifiedIn, ConfirmationRange, MigratedAfter
<1> HIDE DEF Q, Q2
<1>6. CASE Q2 = Q
  <2>1. CASE Q = {}
    BY <1>6, <2>1, ConfirmationParts DEF Q, Q2
  <2>2. CASE Q # {}
    <3>1. First(Q) \in S
      BY <1>4, <2>2, Parts, FirstStaysFirst
    <3>2. Confirming(S2, First(Q)) = Confirming(S, First(Q))
      BY <3>1, EvaluationKept DEF Confirming
    <3> QED
      BY <1>6, <2>2, <3>2, ConfirmationParts DEF Q, Q2
  <2> QED
    BY <2>1, <2>2
<1>7. CASE Q2 = Q \cup {o} /\ Q # {}
  <2>1. First(Q2) = First(Q) /\ First(Q) \in S
    BY <1>4, <1>7, Parts, FirstStaysFirst
  <2>2. Confirming(S2, First(Q)) = Confirming(S, First(Q))
    BY <2>1, EvaluationKept DEF Confirming
  <2>3. Q2 # {}
    BY <1>7
  <2> QED
    BY <1>7, <2>1, <2>2, <2>3, ConfirmationParts DEF Q, Q2
<1>8. CASE Q2 = {o} /\ Q = {}
  <2>1. ProductionConfirmation(S, promo, h) = NoConfirmation
    BY <1>8, ConfirmationParts DEF Q
  <2>2. MigratedAfter(S, promo, h) = {}
    BY <1>5, <1>8
  <2> QED
    BY <2>1, <2>2
<1>9. Q2 = Q \/ Q2 = Q \cup {o}
  BY <1>3, <1>4
<1> QED
  BY <1>6, <1>7, <1>8, <1>9

(* The newest observation, if it migrates: the search ends before it.      *)
LEMMA ConfirmedAtMigration ==
  ASSUME NEW S \in Evidence, NEW o \in Observation, \A p \in S : Before(p, o),
         NEW promo, \E t \in S : t.id = promo.trigger,
         NEW h, NEW k, MigrationTriggers(k) = MigrationTriggers(h) \cup {o.id}
  PROVE  ProductionConfirmation(S \cup {o}, promo, k) = ProductionConfirmation(S, promo, h)
<1> DEFINE S2 == S \cup {o}
           Q == QualifiedIn(S, promo, h)
           Q2 == QualifiedIn(S2, promo, k)
<1>1. S \subseteq Observation /\ ~Before(o, o) /\ \A p \in S : ~Before(o, p)
  BY Parts, BeforeIsAnOrder
<1>2. \A x \in S : x.id # o.id
  BY <1>1, ObservationAssumption
<1>3. ASSUME NEW x \in S
      PROVE  x \in ConfirmationRange(S2, promo, k) <=> x \in ConfirmationRange(S, promo, h)
  BY <1>1, <1>2 DEF ConfirmationRange
<1>4. o \notin ConfirmationRange(S2, promo, k)
  BY <1>1 DEF ConfirmationRange
<1>5. Q2 = Q
  <2>1. \A x \in S : x \in Q2 <=> x \in Q
    BY <1>3, EvaluationKept DEF QualifiedIn
  <2>2. Q2 \subseteq S /\ Q \subseteq S
    BY <1>4 DEF QualifiedIn, ConfirmationRange
  <2> QED
    BY <2>1, <2>2
<1>6. Q # {} => First(Q) \in S /\ Q \in Evidence
  <2>1. Q \subseteq S
    BY DEF QualifiedIn, ConfirmationRange
  <2> QED
    BY <2>1, Parts, FirstStaysFirst
<1> HIDE DEF Q, Q2
<1>7. Q # {} => Confirming(S2, First(Q)) = Confirming(S, First(Q))
  BY <1>6, EvaluationKept DEF Confirming
<1> QED
  BY <1>5, <1>7, ConfirmationParts DEF Q, Q2

(* With an authority, the newest observation keeps the history or adds one *)
(* migration, its own.                                                     *)
LEMMA MigrationsGrowByNewest ==
  ASSUME NEW r, NEW q, NEW o \in Observation, ReplayState(r), Iterates(r, q, o),
         r.active # NoMRZ
  PROVE  \/ q.transitions = r.transitions
         \/ MigrationTriggers(q.transitions) = MigrationTriggers(r.transitions) \cup {o.id}
<1> DEFINE t == r.transitions
           u == q.transitions
<1>1. CASE Stays(r, q) \/ Supports(r, q)
  BY <1>1 DEF Stays, Supports, Result
<1>2. CASE Migrates(r, q, o)
  <2>1. PICK m \in MRZ : q = MigrateTo(r, o, m)
    BY <1>2 DEF Migrates
  <2> DEFINE x == Recorded("MRZ_MIGRATED", o, r.active, m)
             y == Recorded("ROUTE_CHANGED", o, r.active, m)
  <2>2. u = Append(t, x) \/ u = Append(Append(t, x), y)
    BY <2>1 DEF MigrateTo, Result
  <2>3. r.active \in MRZ /\ t \in Seq(Transition) /\ o.id \in Int
    BY <1>2, ObservationAssumption DEF ReplayState, Migrates
  <2>4. /\ x \in Transition /\ x.type = "MRZ_MIGRATED" /\ x.trigger = o.id
        /\ y \in Transition /\ y.type = "ROUTE_CHANGED"
    BY <2>3 DEF Transition, Recorded
  <2> HIDE DEF x, y, t, u
  <2> DEFINE n == Len(t)
  <2>5. /\ n \in Nat /\ DOMAIN t = 1..n /\ DOMAIN u = 1..Len(u)
        /\ \/ Len(u) = n + 1
           \/ Len(u) = n + 2 /\ u[n + 2] = y
        /\ \A i \in 1..n : u[i] = t[i]
        /\ u[n + 1] = x
    BY <2>2, <2>3, <2>4, Extended
  <2> HIDE DEF n
  <2>6. ASSUME NEW i \in DOMAIN u, u[i].type = "MRZ_MIGRATED"
        PROVE  i \in DOMAIN t \/ i = n + 1
    <3>1. CASE Len(u) = n + 1
      BY <2>5, <3>1
    <3>2. CASE Len(u) = n + 2 /\ u[n + 2] = y
      <4>1. i \in 1..n \/ i = n + 1 \/ i = n + 2
        BY <2>5, <3>2
      <4> QED
        BY <2>4, <2>5, <2>6, <3>2, <4>1
    <3> QED
      BY <2>5, <3>1, <3>2
  <2>7. n + 1 \in DOMAIN u /\ \A i \in DOMAIN t : i \in DOMAIN u /\ u[i] = t[i]
    <3>1. CASE Len(u) = n + 1
      BY <2>5, <3>1
    <3>2. CASE Len(u) = n + 2
      <4>1. DOMAIN u = 1..(n + 2)
        BY <2>5, <3>2
      <4>2. n \in Nat
        BY <2>5
      <4>3. n + 1 \in 1..(n + 2) /\ \A i \in 1..n : i \in 1..(n + 2)
        BY <4>2
      <4> QED
        BY <2>5, <4>1, <4>3
    <3> QED
      BY <2>5, <3>1, <3>2
  <2>8. MigrationTriggers(u) \subseteq MigrationTriggers(t) \cup {o.id}
    <3> SUFFICES ASSUME NEW i \in DOMAIN u, u[i].type = "MRZ_MIGRATED"
                 PROVE  u[i].trigger \in MigrationTriggers(t) \cup {o.id}
      BY DEF MigrationTriggers
    <3>1. CASE i \in DOMAIN t
      BY <2>7, <3>1 DEF MigrationTriggers
    <3>2. CASE i = n + 1
      BY <2>4, <2>5, <3>2
    <3> QED
      BY <2>6, <3>1, <3>2
  <2>9. MigrationTriggers(t) \cup {o.id} \subseteq MigrationTriggers(u)
    <3>1. MigrationTriggers(t) \subseteq MigrationTriggers(u)
      BY <2>7 DEF MigrationTriggers
    <3>2. u[n + 1].type = "MRZ_MIGRATED" /\ u[n + 1].trigger = o.id
      BY <2>4, <2>5
    <3>3. o.id \in MigrationTriggers(u)
      BY <2>7, <3>2 DEF MigrationTriggers
    <3> QED
      BY <3>1, <3>3
  <2> QED
    BY <2>8, <2>9 DEF t, u
<1> QED
  BY <1>1, <1>2 DEF Iterates, Activates

(* ConfirmationIsRetained: under a promoted authority evidence that        *)
(* arrives in order never replaces or withdraws a confirmation, and adds   *)
(* none once the authority has migrated.                                   *)
THEOREM ConfirmationTheorem == StoreSpec => ConfirmationIsRetained
<1> DEFINE Premise == /\ active # NoMRZ /\ active.source = "OPERATOR_PROMOTED"
                      /\ \A o \in seen' \ seen : \A p \in seen : Before(p, o)
           Stands == \/ confirmation' = confirmation
                       \/ /\ confirmation = NoConfirmation
                          /\ MigrationTriggers(transitions') = {}
                          /\ transitions' = transitions
<1>1. StoreInv /\ [StoreNext]_storeVars => [Premise => Stands]_storeVars
  <2> SUFFICES ASSUME StoreInv, StoreNext, Premise PROVE Stands
    OBVIOUS
  <2>1. CASE UNCHANGED confirmation
    BY <2>1
  <2>2. ASSUME NEW o \in Observation, Ingest(o) PROVE Stands
    <3> DEFINE r == Result(active, transitions)
               q == Replay(seen', promotion)
    <3>1. /\ o \notin seen /\ seen' = seen \cup {o} /\ promotion' = promotion
          /\ active' = q.active /\ transitions' = q.transitions
      BY <2>2 DEF Ingest, ReplaceDerivedState
    <3>2. \A p \in seen : Before(p, o)
      BY <3>1
    <3>3. /\ seen \in Evidence /\ seen \subseteq Observation /\ promotion \in Seed
          /\ Shape(r, seen, promotion)
      BY ReplayShape, Parts DEF StoreInv
    <3>4. r.active = active /\ r.transitions = transitions /\ ReplayState(r)
      BY <3>3 DEF Result, Shape
    <3>5. PICK t \in seen :
            /\ Seeds(promotion, t)
            /\ transitions[1] = Recorded("MRZ_ACTIVATED", t, NoMRZ, promotion)
            /\ \A i \in 2..Len(transitions) :
                 \E x \in seen : x.id = transitions[i].trigger /\ Before(t, x)
      BY <3>3, <3>4 DEF Shape, FromPromotion
    <3>6. Iterates(r, q, o)
      <4>1. q = ReplayStep(r, RouteDeque(seen', o.route), o, promotion)
        BY <3>1, <3>2, <3>3, ReplayInOrder DEF StoreInv
      <4>2. RouteDeque(seen', o.route) \in Evidence
        BY <3>1, <3>3, DequeIsSeen, Parts
      <4> QED
        BY <3>3, <3>4, <4>1, <4>2, StepCases DEF Iterates, Seed
    <3>7. confirmation' = ProductionConfirmation(seen', promotion, transitions')
      <4>1. StoreInv'
        BY StoreStep
      <4>2. Shape(q, seen', promotion)
        BY <3>1, <4>1, ReplayShape DEF StoreInv
      <4>3. active' # NoMRZ
        BY <3>1, <3>5, <4>2 DEF Shape
      <4> QED
        BY <3>1, <3>5, <4>1, <4>3 DEF StoreInv, Seeds
    <3>8. confirmation = ProductionConfirmation(seen, promotion, transitions)
      BY <3>5 DEF StoreInv, Seeds
    <3>9. \A i \in DOMAIN transitions :
            transitions[i].type = "MRZ_MIGRATED" =>
              \E x \in seen : x.id = transitions[i].trigger /\ Before(t, x)
      <4>1. transitions \in Seq(Transition)
        BY <3>4 DEF ReplayState
      <4>2. \A i \in DOMAIN transitions : i = 1 \/ i \in 2..Len(transitions)
        BY <4>1
      <4> QED
        BY <3>5, <4>2 DEF Recorded
    <3>10. o.id \notin MigrationTriggers(transitions)
      <4>1. \A x \in seen : x.id # o.id
        BY <3>1, <3>3, ObservationAssumption
      <4> QED
        BY <3>9, <4>1 DEF MigrationTriggers
    <3> HIDE DEF r, q
    <3>11. CASE transitions' = transitions
      <4>1. MigratedAfter(seen, promotion, transitions) = {} =>
              MigrationTriggers(transitions) = {}
        BY <3>5, <3>9 DEF MigratedAfter, MigrationTriggers, Seeds
      <4> QED
        BY <3>1, <3>2, <3>3, <3>7, <3>8, <3>10, <3>11, <4>1, ConfirmedWithoutMigration
    <3>12. CASE MigrationTriggers(transitions') = MigrationTriggers(transitions) \cup {o.id}
      <4>1. \E x \in seen : x.id = promotion.trigger
        BY <3>5 DEF Seeds
      <4> QED
        BY <3>1, <3>2, <3>3, <3>7, <3>8, <3>12, <4>1, ConfirmedAtMigration
    <3> QED
      BY <3>1, <3>4, <3>6, <3>11, <3>12, MigrationsGrowByNewest
  <2> QED
    BY <2>1, <2>2
       DEF StoreNext, IngestDuplicate, Review, Promote, PromoteRejected, storeVars
<1> QED
  BY <1>1, StoreInvariant, PTL DEF StoreSpec, ConfirmationIsRetained
------------------------------------------------------------------------------
(* A promotion that finds no authority in the evidence becomes the only    *)
(* source of one: evidence that would have qualified before the trigger    *)
(* would have qualified without the promotion too.                         *)
LEMMA OnlyThePromotionActivates ==
  ASSUME NEW S \in Evidence, NEW promo \in Seed, Replay(S, NoMRZ).active = NoMRZ
  PROVE  \/ Replay(S, promo).active = NoMRZ
         \/ Replay(S, promo).active.source = "OPERATOR_PROMOTED"
<1> DEFINE Free(T)  == Replay(T, NoMRZ).active = NoMRZ
           Ours(T)  == \/ Replay(T, promo).active = NoMRZ
                       \/ Replay(T, promo).active.source = "OPERATOR_PROMOTED"
           Bad == {T \in Evidence : Free(T) /\ ~Ours(T)}
<1> SUFFICES ASSUME Bad # {} PROVE FALSE
  OBVIOUS
<1>1. PICK T \in Bad : \A U \in SUBSET T : U # T => U \notin Bad
  BY SmallestExists
<1>2. T \in Evidence /\ Free(T) /\ ~Ours(T)
  OBVIOUS
<1>3. T # {}
  <2>1. Replay({}, promo).active = NoMRZ
    <3>1. {} \in Evidence
      BY <1>2, Parts
    <3>2. Replay({}, promo) = Result(NoMRZ, <<>>)
      BY <3>1, ReplayEquation
    <3> QED
      BY <3>2 DEF Result
  <2> QED
    BY <1>2, <2>1
<1> DEFINE n == NewestOf(T)
           U == T \ {n}
           w == RouteDeque(T, n.route)
<1>4. n \in T /\ n \in Observation /\ U \in Evidence /\ U \in SUBSET T /\ U # T
  BY <1>2, <1>3, NewestExists, Parts
<1>5. /\ Replay(T, NoMRZ) = ReplayStep(Replay(U, NoMRZ), w, n, NoMRZ)
      /\ Replay(T, promo) = ReplayStep(Replay(U, promo), w, n, promo)
  BY <1>2, <1>3, ReplayEquation DEF NewestStep
<1>6. w \in Evidence /\ promo \in MRZ \cup {NoMRZ} /\ NoMRZ \in Seed
  BY <1>2, DequeIsSeen, Parts DEF Seed
<1>7. ReplayState(Replay(U, NoMRZ)) /\ ReplayState(Replay(U, promo))
  BY <1>4, <1>6, ReplayShape DEF Shape
<1>8. U \notin Bad
  BY <1>1, <1>4
<1> HIDE DEF n, U, w, Bad
<1>9. /\ Iterates(Replay(U, NoMRZ), Replay(T, NoMRZ), n)
      /\ Iterates(Replay(U, promo), Replay(T, promo), n)
  BY <1>4, <1>5, <1>6, <1>7, StepCases DEF Iterates
<1>10. Free(U)
  BY <1>2, <1>7, <1>9, IterationKeepsAuthority
<1>11. Ours(U)
  BY <1>4, <1>8, <1>10 DEF Bad
<1>12. Replay(U, promo).active = NoMRZ
  BY <1>2, <1>7, <1>9, <1>11, IterationKeepsAuthority
<1>13. ~QualifiesFor(Evaluate(w, n.route), n)
  <2> SUFFICES ASSUME QualifiesFor(Evaluate(w, n.route), n) PROVE FALSE
    OBVIOUS
  <2>1. PICK m \in MRZ :
          Replay(T, NoMRZ) = Result(m, Append(Replay(U, NoMRZ).transitions,
                                              Recorded("MRZ_ACTIVATED", n, NoMRZ, m)))
    BY <1>4, <1>5, <1>6, <1>7, <1>10, FirstAuthority
  <2> QED
    BY <1>2, <2>1, NoMRZAssumption DEF Result
<1>14. CASE promo # NoMRZ /\ n.id = promo.trigger
  <2>1. Replay(T, promo).active = promo
    BY <1>4, <1>5, <1>6, <1>7, <1>12, <1>14, FirstAuthority DEF Result
  <2> QED
    BY <1>2, <1>14, <2>1 DEF Seed
<1>15. CASE ~(promo # NoMRZ /\ n.id = promo.trigger)
  <2>1. Replay(T, promo) = Replay(U, promo)
    BY <1>4, <1>5, <1>6, <1>7, <1>12, <1>13, <1>15, FirstAuthority
  <2> QED
    BY <1>2, <1>12, <2>1
<1> QED
  BY <1>14, <1>15

(* As long as it has not migrated, an authority promoted at the newest     *)
(* observation of its route is the exact candidate: nothing after it could *)
(* have supported it.                                                      *)
LEMMA ExactCandidate ==
  ASSUME NEW S \in Evidence, NEW promo \in Seed, NEW t \in S, Seeds(promo, t),
         \A o \in S : o.route = promo.owner => ~Before(t, o),
         Replay(S, promo).active # NoMRZ,
         Replay(S, promo).active.source = "OPERATOR_PROMOTED",
         Len(Replay(S, promo).transitions) = 1
  PROVE  Replay(S, promo).active = promo
<1> DEFINE Premise(T) ==
             /\ \A o \in T : o.route = promo.owner => ~Before(t, o)
             /\ Replay(T, promo).active # NoMRZ
             /\ Replay(T, promo).active.source = "OPERATOR_PROMOTED"
             /\ Len(Replay(T, promo).transitions) = 1
           Bad == {T \in Evidence : Premise(T) /\ Replay(T, promo).active # promo}
<1> SUFFICES ASSUME Bad # {} PROVE FALSE
  OBVIOUS
<1>1. PICK T \in Bad : \A U \in SUBSET T : U # T => U \notin Bad
  BY SmallestExists
<1>2. T \in Evidence /\ Premise(T) /\ Replay(T, promo).active # promo
  OBVIOUS
<1>3. T # {}
  <2>1. Result(NoMRZ, <<>>).active = NoMRZ
    BY DEF Result
  <2>2. T = {} => Replay(T, promo) = Result(NoMRZ, <<>>)
    BY <1>2, ReplayEquation
  <2> QED
    BY <1>2, <2>1, <2>2
<1> DEFINE n == NewestOf(T)
           U == T \ {n}
           w == RouteDeque(T, n.route)
           r == Replay(U, promo)
           q == Replay(T, promo)
<1>4. /\ n \in T /\ n \in Observation /\ U \in Evidence /\ U \in SUBSET T /\ U # T
      /\ \A p \in U : Before(p, n)
      /\ t \in Observation
  BY <1>2, <1>3, NewestExists, Parts
<1>5. q = ReplayStep(r, w, n, promo)
  BY <1>2, <1>3, ReplayEquation DEF NewestStep
<1>6. w \in Evidence /\ promo \in MRZ \cup {NoMRZ}
  BY <1>2, DequeIsSeen, Parts DEF Seed
<1>7. Shape(r, U, promo) /\ ReplayState(r)
  BY <1>4, ReplayShape DEF Shape
<1>8. U \notin Bad
  BY <1>1, <1>4
<1> HIDE DEF n, U, w, r, q, Bad
<1>9. Iterates(r, q, n)
  BY <1>4, <1>5, <1>6, <1>7, StepCases DEF Iterates
<1>10. CASE r.active = NoMRZ
  <2>1. CASE promo # NoMRZ /\ n.id = promo.trigger
    <3>0. q = Result(promo, Append(r.transitions, Recorded("MRZ_ACTIVATED", n, NoMRZ, promo)))
      BY <1>4, <1>5, <1>6, <1>7, <1>10, <2>1, FirstAuthority
    <3>1. q.active = promo
      BY <3>0 DEF Result
    <3> QED
      BY <1>2, <3>1 DEF q
  <2>2. CASE ~(promo # NoMRZ /\ n.id = promo.trigger)
    <3>1. \/ q = r
          \/ \E m \in MRZ : /\ m.source = "PRODUCTION_QUALIFIED"
                           /\ q = Result(m, Append(r.transitions,
                                                   Recorded("MRZ_ACTIVATED", n, NoMRZ, m)))
      BY <1>4, <1>5, <1>6, <1>7, <1>10, <2>2, FirstAuthority
    <3>2. q.active = NoMRZ \/ q.active.source = "PRODUCTION_QUALIFIED"
      BY <1>10, <3>1 DEF Result
    <3> QED
      BY <1>2, <3>2 DEF q
  <2> QED
    BY <2>1, <2>2
<1>11. CASE r.active # NoMRZ
  <2>1. r.active.source = "OPERATOR_PROMOTED"
    BY <1>2, <1>7, <1>9, <1>11, IterationKeepsAuthority DEF q
  <2>2. PICK x \in U : Seeds(promo, x)
    BY <1>7, <1>11, <2>1 DEF Shape, FromPromotion
  <2>3. x = t
    <3>1. x \in Observation /\ x.id = t.id
      BY <1>4, <2>2, Parts DEF Seeds
    <3> QED
      BY <1>4, <3>1, ObservationAssumption
  <2>4. n.route # promo.owner
    BY <1>2, <1>4, <2>2, <2>3
  <2>5. Len(r.transitions) = 1
    <3>1. r.transitions # <<>> /\ r.transitions \in Seq(Transition)
      BY <1>7, <1>11 DEF Shape, Chain, ReplayState
    <3>2. Len(r.transitions) <= Len(q.transitions) /\ Len(q.transitions) = 1
      BY <1>2, <1>4, <1>7, <1>9, IterationExtends DEF q
    <3>3. Len(r.transitions) \in Nat /\ Len(r.transitions) # 0
      BY <3>1
    <3>4. Len(r.transitions) <= 1
      BY <3>2
    <3>5. \A k \in Nat : k # 0 /\ k <= 1 => k = 1
      OBVIOUS
    <3> QED
      BY <3>3, <3>4, <3>5
  <2>6. r.active = promo
    <3>1. Premise(U)
      BY <1>2, <1>4, <1>11, <2>1, <2>5 DEF r
    <3> QED
      BY <1>4, <1>8, <3>1 DEF Bad, r
  <2>7. ~SupportsActiveCore(r.active, n)
    BY <2>4, <2>6 DEF SupportsActiveCore
  <2>8. q = r \/ \E m : q = MigrateTo(r, n, m)
    BY <1>5, <1>11, <2>7 DEF ReplayStep, WithAuthority
  <2>9. CASE q = r
    BY <1>2, <2>6, <2>9 DEF q
  <2>10. ASSUME NEW m, q = MigrateTo(r, n, m) PROVE FALSE
    <3> DEFINE u == r.transitions
               x1 == Recorded("MRZ_MIGRATED", n, r.active, m)
               y1 == Recorded("ROUTE_CHANGED", n, r.active, m)
    <3>1. q.transitions = Append(u, x1) \/ q.transitions = Append(Append(u, x1), y1)
      BY <2>10 DEF MigrateTo, Result
    <3>2. u \in Seq(Transition) /\ Len(u) = 1 /\ Len(q.transitions) = 1
      BY <1>2, <1>7, <2>5 DEF ReplayState, q
    <3> HIDE DEF u, x1, y1
    <3> QED
      BY <3>1, <3>2
  <2> QED
    BY <2>8, <2>9, <2>10
<1> QED
  BY <1>10, <1>11

(* What a promotion writes, by the candidate of the page it came from.     *)
TakesEffect ==
  \E t \in seen :
    /\ t.id = promotion'.trigger
    /\ ~\E o \in seen : o.route = t.route /\ Before(t, o)
    /\ transitions' # <<>>
    /\ transitions'[1] = [type |-> "MRZ_ACTIVATED", trigger |-> t.id,
                          old |-> NoMRZ, new |-> promotion']
    /\ \A i \in 2..Len(transitions') : \E o \in seen :
         /\ o.id = transitions'[i].trigger
         /\ o.route # t.route /\ Before(t, o)
    /\ Len(transitions') = 1 => active' = promotion'

(* The promotion's step has the effect the property states.                *)
LEMMA PromotionEffect ==
  ASSUME StoreInv, Promote
  PROVE  TakesEffect
<1> DEFINE c == reviewed
           t == c.newest
           r == Replay(seen, promotion')
<1>1. /\ promotion' = PromotedAuthority(c) /\ Promotable(c)
      /\ active = NoMRZ /\ promotion = NoMRZ
      /\ active' = r.active /\ transitions' = r.transitions /\ active' # NoMRZ
  BY DEF Promote, ReplaceDerivedState
<1>2. seen \in Evidence /\ seen \subseteq Observation /\ Replay(seen, NoMRZ).active = NoMRZ
  BY <1>1, Parts DEF StoreInv, Result
<1>3. /\ promotion' \in Seed /\ promotion'.owner = t.route
      /\ t \in seen /\ Seeds(promotion', t)
      /\ \A o \in seen : o.route = t.route => ~Before(t, o)
  BY <1>1, <1>2, PromotedIsSeed
<1>4. Shape(r, seen, promotion')
  BY <1>2, <1>3, ReplayShape
<1>5. active'.source = "OPERATOR_PROMOTED"
  BY <1>1, <1>2, <1>3, OnlyThePromotionActivates
<1>6. PICK x \in seen :
        /\ Seeds(promotion', x)
        /\ transitions'[1] = Recorded("MRZ_ACTIVATED", x, NoMRZ, promotion')
        /\ \A i \in 2..Len(transitions') :
             \E y \in seen : y.id = transitions'[i].trigger /\ Before(x, y)
  BY <1>1, <1>4, <1>5 DEF Shape, FromPromotion
<1>7. x = t
  BY <1>2, <1>3, <1>6, ObservationAssumption DEF Seeds
<1>8. transitions' # <<>>
  BY <1>1, <1>4 DEF Shape, Chain
<1>9. Len(transitions') = 1 => active' = promotion'
  BY <1>1, <1>2, <1>3, <1>5, ExactCandidate
<1> HIDE DEF t, r
<1>10. transitions'[1] = [type |-> "MRZ_ACTIVATED", trigger |-> t.id,
                          old |-> NoMRZ, new |-> promotion']
  BY <1>6, <1>7 DEF Recorded
<1>11. \A i \in 2..Len(transitions') : \E o \in seen :
         /\ o.id = transitions'[i].trigger
         /\ o.route # t.route /\ Before(t, o)
  BY <1>3, <1>6, <1>7
<1> QED
  BY <1>3, <1>8, <1>9, <1>10, <1>11 DEF Seeds, TakesEffect

(* PromotionTakesEffect: the exact candidate is activated at the newest    *)
(* observation of its route, and the replay goes on from there to stored   *)
(* evidence of the other route only.                                       *)
THEOREM PromotionTakesEffectTheorem == StoreSpec => PromotionTakesEffect
<1> DEFINE Effect == promotion = NoMRZ /\ promotion' # NoMRZ => TakesEffect
<1>1. StoreInv /\ [StoreNext]_storeVars => [Effect]_storeVars
  <2> SUFFICES ASSUME StoreInv, StoreNext, promotion = NoMRZ, promotion' # NoMRZ
               PROVE  Effect
    OBVIOUS
  <2>1. Promote
    BY DEF StoreNext, Ingest, IngestDuplicate, Review, PromoteRejected, storeVars
  <2> QED
    BY <2>1, PromotionEffect
<1> QED
  BY <1>1, StoreInvariant, PTL DEF StoreSpec, PromotionTakesEffect, TakesEffect
==============================================================================
