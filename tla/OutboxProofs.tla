----------------------------- MODULE OutboxProofs -----------------------------
(***************************************************************************)
(* Proofs about the outbox, for every set of observations, every           *)
(* deployment, every evaluator and every list of near misses that satisfy  *)
(* the assumptions, and any number of faults.  Like the run, they are      *)
(* about webhooks in the order of their observations: a late one           *)
(* renumbers the history, and with it the keys.                            *)
(***************************************************************************)
EXTENDS NotificationOutbox, SymbolStoreProofs

Keys ==
  [type : {"MRZ_ACTIVATED", "MRZ_MIGRATED"}, sequence : Nat, trigger : Int]
    \cup [type : {"MRZ_NEAR_MISS"}, route : Routes, trigger : Int]

Row == [key : Keys, deliverable : BOOLEAN]

\* Entries of a history that are announced, or were before the cutover.
Events(h) == {j \in DOMAIN h : h[j].type # "ROUTE_CHANGED"}

(* An observation causes at most one activation or migration.              *)
OneEach(h) ==
  \A i, j \in Events(h) : h[i].trigger = h[j].trigger => i = j

Distinct(rs) == \A i, j \in DOMAIN rs : rs[i].key = rs[j].key => i = j

\* h begins with g.
Begins(g, h) == Len(g) <= Len(h) /\ \A i \in 1..Len(g) : h[i] = g[i]

\* What the history was when notifications were introduced.
Deployed == Replay(old, NoMRZ).transitions

(* The cutover's history is still how the history begins.                  *)
OldInv ==
  /\ old \in Evidence /\ old \subseteq seen
  /\ Begins(Deployed, transitions)

EntriesInv ==
  /\ IsFiniteSet(entries)
  /\ \A k \in entries : \E o \in seen : \E r \in Routes :
       k = [type |-> "MRZ_NEAR_MISS", route |-> r, trigger |-> o.id]

(* Every row is of an entry or of an event of the history, under the key   *)
(* that event still has, and no two are of the same; the rows of the       *)
(* cutover's events are there and are not to be delivered.                 *)
RowsInv ==
  /\ outbox \in Seq(Row)
  /\ \A i \in DOMAIN outbox :
       \/ outbox[i].key \in entries
       \/ \E j \in Events(transitions) : outbox[i].key = EventKey(transitions, j)
  /\ Distinct(outbox)
  /\ \A j \in Events(Deployed) : \E i \in DOMAIN outbox :
       outbox[i].key = EventKey(transitions, j) /\ ~outbox[i].deliverable

OutboxInv ==
  /\ StoreInv
  /\ OldInv
  /\ EntriesInv
  /\ RowsInv
  /\ NothingIsForgotten
------------------------------------------------------------------------------
(* The rows of a finite set, in some order.                                *)
LEMMA SetToSeqIs ==
  ASSUME NEW S, IsFiniteSet(S)
  PROVE  /\ SetToSeq(S) \in Seq(S)
         /\ \A x \in S : \E i \in DOMAIN SetToSeq(S) : SetToSeq(S)[i] = x
         /\ \A i, j \in DOMAIN SetToSeq(S) : SetToSeq(S)[i] = SetToSeq(S)[j] => i = j
<1> DEFINE n == Cardinality(S)
           q == SetToSeq(S)
<1>1. n \in Nat /\ ExistsBijection(1..n, S)
  BY FS_CardinalityType
<1>2. \E f \in [1..n -> S] : IsInjective(f)
  BY <1>1 DEF ExistsBijection, Bijection, Injection
<1>3. q \in [1..n -> S] /\ IsInjective(q)
  BY <1>2 DEF SetToSeq
<1>4. q \in Injection(1..n, S)
  BY <1>3 DEF Injection
<1>5. IsFiniteSet(1..n) /\ Cardinality(1..n) = n
  BY <1>1, FS_Interval
<1> HIDE DEF q
<1>6. q \in Surjection(1..n, S)
  BY <1>4, <1>5, FS_Injection
<1>7. q \in Seq(S)
  BY <1>1, <1>3
<1>8. DOMAIN q = 1..n
  BY <1>3
<1>9. \A x \in S : \E i \in 1..n : q[i] = x
  BY <1>6 DEF Surjection
<1>10. \A i, j \in DOMAIN q : q[i] = q[j] => i = j
  BY <1>3 DEF IsInjective
<1> QED
  BY <1>7, <1>8, <1>9, <1>10 DEF q

LEMMA ImageIsFinite ==
  ASSUME NEW I, IsFiniteSet(I), NEW f, f = [i \in I |-> f[i]]
  PROVE  IsFiniteSet({f[i] : i \in I})
<1>1. f \in Surjection(I, {f[i] : i \in I})
  BY DEF Surjection
<1> QED
  BY <1>1, FS_Surjection

(* INSERT ... ON CONFLICT DO NOTHING adds the keys that are missing.       *)
LEMMA InsertedRows ==
  ASSUME NEW rs \in Seq(Row), Distinct(rs), NEW K \in SUBSET Keys, IsFiniteSet(K)
  PROVE  LET u == Inserted(rs, K)
         IN  /\ u \in Seq(Row) /\ Distinct(u)
             /\ Begins(rs, u)
             /\ \A i \in DOMAIN u : u[i].key \in KeysOf(rs) \cup K
             /\ KeysOf(u) = KeysOf(rs) \cup K
<1> DEFINE N == K \ KeysOf(rs)
           row(k) == [key |-> k, deliverable |-> TRUE]
           f == [k \in N |-> row(k)]
           R == {row(k) : k \in N}
           q == SetToSeq(R)
           u == rs \o q
<1>1. IsFiniteSet(R)
  <2>1. IsFiniteSet(N)
    BY FS_Subset
  <2>2. R = {f[k] : k \in N}
    OBVIOUS
  <2> HIDE DEF N, R
  <2> QED
    BY <2>1, <2>2, ImageIsFinite
<1>2. R \subseteq Row
  <2>1. \A k \in Keys : row(k) \in Row
    BY DEF Row
  <2> HIDE DEF row
  <2> QED
    BY <2>1
<1>3. \A k : row(k).key = k
  OBVIOUS
<1>4. /\ \A x \in R : x.key \in N /\ x = row(x.key)
      /\ \A k \in N : \E x \in R : x.key = k
  <2> HIDE DEF row
  <2> QED
    BY <1>3
<1>5. \A x, y \in R : x.key = y.key => x = y
  <2> HIDE DEF row, R
  <2> QED
    BY <1>4
<1>6. N \cap KeysOf(rs) = {} /\ K \subseteq N \cup KeysOf(rs) /\ N \subseteq K
  OBVIOUS
<1>7. Inserted(rs, K) = u
  BY DEF Inserted
<1> HIDE DEF N, row, f, R
<1>8. /\ q \in Seq(R)
      /\ \A x \in R : \E i \in DOMAIN q : q[i] = x
      /\ \A i, j \in DOMAIN q : q[i] = q[j] => i = j
  BY <1>1, SetToSeqIs
<1> HIDE DEF q
<1> DEFINE m == Len(rs)
           n == Len(q)
<1>9. /\ m \in Nat /\ n \in Nat /\ DOMAIN rs = 1..m /\ DOMAIN q = 1..n
      /\ \A i \in 1..n : q[i] \in R
  BY <1>8
<1>10. q \in Seq(Row)
  BY <1>2, <1>8
<1>11. /\ u \in Seq(Row) /\ Len(u) = m + n /\ DOMAIN u = 1..(m + n)
       /\ \A i \in 1..m : u[i] = rs[i]
       /\ \A i \in m + 1 .. m + n : u[i] = q[i - m]
  BY <1>9, <1>10
<1> HIDE DEF u, m, n
<1>12. \A i \in 1..(m + n) : i \in 1..m \/ (i \in m + 1 .. m + n /\ i - m \in 1..n)
  BY <1>9
<1>13. \A i \in m + 1 .. m + n : u[i] \in R /\ u[i].key \in N
  BY <1>4, <1>9, <1>11, <1>12
<1>14. \A i \in 1..m : u[i].key \in KeysOf(rs)
  BY <1>9, <1>11 DEF KeysOf
<1>15. Distinct(u)
  <2> SUFFICES ASSUME NEW i \in 1..(m + n), NEW j \in 1..(m + n), u[i].key = u[j].key
               PROVE  i = j
    BY <1>11 DEF Distinct
  <2>1. CASE i \in 1..m /\ j \in 1..m
    BY <2>1, <1>9, <1>11 DEF Distinct
  <2>2. CASE i \in m + 1 .. m + n /\ j \in m + 1 .. m + n
    <3>1. u[i] = u[j]
      BY <2>2, <1>5, <1>13
    <3>2. i - m \in 1..n /\ j - m \in 1..n
      BY <2>2, <1>9
    <3>3. q[i - m] = q[j - m]
      BY <2>2, <3>1, <1>11
    <3>4. i - m = j - m
      BY <3>2, <3>3, <1>8, <1>9
    <3> QED
      BY <3>4, <1>9
  <2>3. CASE i \in 1..m /\ j \in m + 1 .. m + n
    BY <2>3, <1>6, <1>13, <1>14
  <2>4. CASE i \in m + 1 .. m + n /\ j \in 1..m
    BY <2>4, <1>6, <1>13, <1>14
  <2> QED
    BY <1>12, <2>1, <2>2, <2>3, <2>4
<1>16. \A i \in DOMAIN u : u[i].key \in KeysOf(rs) \cup K
  BY <1>6, <1>11, <1>12, <1>13, <1>14
<1>17. KeysOf(rs) \cup K \subseteq KeysOf(u)
  <2>1. \A k \in KeysOf(rs) : k \in KeysOf(u)
    <3>1. \A i \in 1..m : i \in 1..(m + n)
      BY <1>9
    <3> QED
      BY <3>1, <1>9, <1>11 DEF KeysOf
  <2>2. \A k \in N : k \in KeysOf(u)
    <3> SUFFICES ASSUME NEW k \in N PROVE \E i \in 1..(m + n) : u[i].key = k
      BY <1>11 DEF KeysOf
    <3>1. PICK x \in R : x.key = k
      BY <1>4
    <3>2. PICK i \in 1..n : q[i] = x
      BY <1>8, <1>9
    <3>3. /\ m + i \in 1..(m + n) /\ m + i \in m + 1 .. m + n /\ (m + i) - m = i
      BY <1>9
    <3> QED
      BY <3>1, <3>2, <3>3, <1>11
  <2> QED
    BY <2>1, <2>2, <1>6
<1>18. KeysOf(u) = KeysOf(rs) \cup K
  BY <1>16, <1>17 DEF KeysOf
<1>19. Begins(rs, u)
  BY <1>9, <1>11 DEF Begins, m
<1> QED
  BY <1>7, <1>11, <1>15, <1>16, <1>18, <1>19
------------------------------------------------------------------------------
(* One iteration of the replay loop adds one activation or migration at    *)
(* most, for an observation that is not in the history yet.                *)
LEMMA IterationKeepsOneEach ==
  ASSUME NEW r, NEW q, NEW o \in Observation, ReplayState(r), Iterates(r, q, o),
         OneEach(r.transitions),
         \A i \in DOMAIN r.transitions : r.transitions[i].trigger # o.id
  PROVE  OneEach(q.transitions)
<1> DEFINE h == r.transitions
           u == q.transitions
           n == Len(h)
<1>1. h \in Seq(Transition) /\ n \in Nat /\ DOMAIN h = 1..n
  BY DEF ReplayState
<1>2. \/ u = h
      \/ \E x : u = Append(h, x)
      \/ \E x, y : u = Append(Append(h, x), y) /\ y.type = "ROUTE_CHANGED"
  <2>1. CASE Stays(r, q) \/ Supports(r, q)
    BY <2>1 DEF Stays, Supports, Result
  <2>2. CASE Activates(r, q, o)
    BY <2>2 DEF Activates, Result
  <2>3. CASE Migrates(r, q, o)
    <3>1. PICK m \in MRZ : q = MigrateTo(r, o, m)
      BY <2>3 DEF Migrates
    <3> DEFINE x == Recorded("MRZ_MIGRATED", o, r.active, m)
               y == Recorded("ROUTE_CHANGED", o, r.active, m)
    <3>2. y.type = "ROUTE_CHANGED"
      BY DEF Recorded
    <3>3. u = Append(h, x) \/ u = Append(Append(h, x), y)
      BY <3>1 DEF MigrateTo, Result
    <3> QED
      BY <3>2, <3>3
  <2> QED
    BY <2>1, <2>2, <2>3 DEF Iterates
<1>3. /\ \A i \in 1..n : u[i] = h[i]
      /\ \A i \in n + 1 .. Len(u) : u[i].trigger = o.id
  BY IterationExtends
<1> HIDE DEF u, h
<1>4. /\ Len(u) \in {n, n + 1, n + 2} /\ DOMAIN u = 1..Len(u)
      /\ Len(u) = n + 2 => u[n + 2].type = "ROUTE_CHANGED"
  BY <1>1, <1>2
<1> HIDE DEF n
<1>5. \A i \in Events(u) : i \in Events(h) \/ i = n + 1
  <2>1. \A i \in 1..Len(u) : i \in 1..n \/ i = n + 1 \/ (i = n + 2 /\ Len(u) = n + 2)
    <3>1. n \in Nat /\ (Len(u) = n \/ Len(u) = n + 1 \/ Len(u) = n + 2)
      BY <1>1, <1>4
    <3> DEFINE m == Len(u)
    <3> HIDE DEF m
    <3> QED
      BY <3>1 DEF m
  <2>2. \A i \in Events(u) : i \in 1..Len(u) /\ u[i].type # "ROUTE_CHANGED"
    BY <1>4 DEF Events
  <2>3. \A i \in 1..n : u[i].type # "ROUTE_CHANGED" => i \in Events(h)
    BY <1>1, <1>3 DEF Events
  <2> QED
    BY <1>4, <2>1, <2>2, <2>3
<1>6. \A i \in Events(h) : h[i] = u[i] /\ u[i].trigger # o.id
  BY <1>1, <1>3 DEF Events, h
<1>7. n + 1 \in Events(u) => u[n + 1].trigger = o.id
  <2>1. n + 1 \in Events(u) => n + 1 \in 1..Len(u)
    BY <1>4 DEF Events
  <2>2. n + 1 \in 1..Len(u) => n + 1 \in n + 1 .. Len(u)
    BY <1>1, <1>4
  <2> QED
    BY <1>3, <2>1, <2>2
<1> QED
  BY <1>5, <1>6, <1>7 DEF OneEach, u, h

LEMMA ReplayHasOneEach ==
  ASSUME NEW S \in Evidence, NEW promo \in Seed
  PROVE  OneEach(Replay(S, promo).transitions)
<1> DEFINE Bad == {T \in Evidence : ~OneEach(Replay(T, promo).transitions)}
<1> SUFFICES ASSUME Bad # {} PROVE FALSE
  OBVIOUS
<1>1. PICK T \in Bad : \A U \in SUBSET T : U # T => U \notin Bad
  BY SmallestExists
<1>2. T # {}
  <2>1. CASE T = {}
    <3>1. Replay(T, promo) = Result(NoMRZ, <<>>)
      BY <2>1, ReplayEquation
    <3> QED
      BY <3>1 DEF Result, OneEach, Events
  <2> QED
    BY <2>1
<1> DEFINE n == NewestOf(T)
           U == T \ {n}
           r == Replay(U, promo)
           q == Replay(T, promo)
<1>3. /\ n \in Observation /\ n \in T
      /\ U \in Evidence /\ U \in SUBSET T /\ U # T
  BY <1>2, NewestExists, Parts
<1>4. OneEach(r.transitions)
  <2>1. U \notin Bad
    BY <1>1, <1>3
  <2> QED
    BY <1>3, <2>1
<1>5. Shape(r, U, promo)
  BY <1>3, ReplayShape
<1>6. Iterates(r, q, n)
  <2>1. q = ReplayStep(r, RouteDeque(T, n.route), n, promo)
    BY <1>2, ReplayEquation DEF NewestStep
  <2>2. RouteDeque(T, n.route) \in Evidence
    BY DequeIsSeen, Parts
  <2> HIDE DEF n, r, q
  <2> QED
    BY <1>3, <1>5, <2>1, <2>2, StepCases DEF Iterates, Shape, Seed
<1>7. \A i \in DOMAIN r.transitions : r.transitions[i].trigger # n.id
  <2>1. \A i \in 1..Len(r.transitions) : \E x \in U : x.id = r.transitions[i].trigger
    BY <1>5 DEF Shape, Caused
  <2>2. DOMAIN r.transitions = 1..Len(r.transitions)
    BY <1>5 DEF Shape, ReplayState
  <2>3. \A x \in U : x.id # n.id
    BY <1>3, Parts, ObservationAssumption
  <2> HIDE DEF r, n, U
  <2> QED
    BY <2>1, <2>2, <2>3
<1>8. ReplayState(r)
  BY <1>5 DEF Shape
<1> HIDE DEF r, q, n, U
<1>9. OneEach(q.transitions)
  BY <1>3, <1>4, <1>6, <1>7, <1>8, IterationKeepsOneEach
<1> QED
  BY <1>9 DEF q

(* What is known of the stored history.                                    *)
LEMMA HistoryIs ==
  ASSUME StoreInv
  PROVE  /\ transitions \in Seq(Transition) /\ Len(transitions) \in Nat
         /\ DOMAIN transitions = 1..Len(transitions)
         /\ OneEach(transitions)
         /\ active = NoMRZ => transitions = <<>>
         /\ \A i \in DOMAIN transitions :
              /\ \E o \in seen : o.id = transitions[i].trigger
              /\ transitions[i].trigger \in Int
              /\ transitions[i].type = "MRZ_ACTIVATED" => i = 1
<1>1. Replay(seen, promotion).transitions = transitions
  BY DEF StoreInv, Result
<1>2. Shape(Result(active, transitions), seen, promotion)
  BY ReplayShape DEF StoreInv
<1>3. /\ transitions \in Seq(Transition) /\ Chain(active, transitions)
      /\ \A i \in 1..Len(transitions) : \E o \in seen : o.id = transitions[i].trigger
  BY <1>2 DEF Shape, ReplayState, Result, Caused
<1>4. OneEach(transitions)
  BY <1>1, ReplayHasOneEach DEF StoreInv
<1>5. \A i \in DOMAIN transitions : transitions[i].trigger \in Int
  <2>1. \A i \in DOMAIN transitions : transitions[i] \in Transition
    BY <1>3
  <2>2. \A x \in Transition : x.trigger \in Int
    BY DEF Transition
  <2> QED
    BY <2>1, <2>2
<1>6. /\ active = NoMRZ => transitions = <<>>
      /\ \A i \in DOMAIN transitions : transitions[i].type = "MRZ_ACTIVATED" => i = 1
  BY <1>3 DEF Chain
<1> QED
  BY <1>3, <1>4, <1>5, <1>6

(* The same after a step.                                                  *)
LEMMA HistoryIsNext ==
  ASSUME StoreInv'
  PROVE  /\ Len(transitions') \in Nat
         /\ DOMAIN transitions' = 1..Len(transitions')
         /\ \A i \in DOMAIN transitions' :
              transitions'[i].type = "MRZ_ACTIVATED" => i = 1
<1>1. Replay(seen', promotion') = Result(active', transitions')
  BY DEF StoreInv
<1>2. Shape(Result(active', transitions'), seen', promotion')
  BY <1>1, ReplayShape DEF StoreInv
<1>3. transitions' \in Seq(Transition) /\ Chain(active', transitions')
  BY <1>2 DEF Shape, ReplayState, Result
<1> QED
  BY <1>3 DEF Chain

(* An observation in order only adds to the history, and what it adds is   *)
(* its own.                                                                *)
LEMMA InOrderExtends ==
  ASSUME StoreInv, NEW o \in Observation, Ingest(o), \A p \in seen : Before(p, o)
  PROVE  /\ Begins(transitions, transitions')
         /\ \A i \in Len(transitions) + 1 .. Len(transitions') :
              transitions'[i].trigger = o.id
<1>1. /\ seen' = seen \cup {o} /\ promotion' = promotion
      /\ transitions' = Replay(seen', promotion).transitions
  BY DEF Ingest, ReplaceDerivedState
<1> DEFINE r == Result(active, transitions)
           q == Replay(seen', promotion)
<1>2. q = ReplayStep(r, RouteDeque(seen', o.route), o, promotion)
  BY <1>1, ReplayInOrder DEF StoreInv
<1>3. ReplayState(r)
  BY ReplayShape DEF StoreInv, Shape
<1>4. RouteDeque(seen', o.route) \in Evidence
  BY <1>1, DequeIsSeen, Parts DEF StoreInv
<1>5. promotion \in MRZ \cup {NoMRZ}
  BY DEF StoreInv, Seed
<1> HIDE DEF q
<1>6. r.transitions = transitions
  BY DEF Result
<1> HIDE DEF r
<1>7. Iterates(r, q, o)
  BY <1>2, <1>3, <1>4, <1>5, StepCases DEF Iterates
<1>8. q.transitions = transitions'
  BY <1>1 DEF q
<1>9. /\ Len(r.transitions) <= Len(q.transitions)
      /\ \A i \in 1..Len(r.transitions) : q.transitions[i] = r.transitions[i]
      /\ \A i \in Len(r.transitions) + 1 .. Len(q.transitions) :
           q.transitions[i].trigger = o.id
  BY <1>3, <1>7, IterationExtends
<1> QED
  BY <1>6, <1>8, <1>9 DEF Begins
------------------------------------------------------------------------------
LEMMA NotifiableIs ==
  ASSUME StoreInv, EntriesInv
  PROVE  /\ IsFiniteSet(Notifiable) /\ Notifiable \subseteq Keys
         /\ \A k \in Notifiable :
              /\ \E o \in seen : o.id = k.trigger
              /\ \/ k \in entries
                 \/ \E j \in Events(transitions) : k = EventKey(transitions, j)
         /\ \A j \in Events(transitions) : EventKey(transitions, j) \in Keys
<1> DEFINE E == Events(transitions)
           f == [j \in E |-> EventKey(transitions, j)]
           H == {f[j] : j \in E}
<1>1. IsFiniteSet(H)
  <2>1. IsFiniteSet(1..Len(transitions))
    BY HistoryIs, FS_Interval
  <2>2. IsFiniteSet(E)
    BY <2>1, HistoryIs, FS_Subset DEF Events
  <2> HIDE DEF E
  <2> QED
    BY <2>2, ImageIsFinite
<1>2. NotifiableEvents(transitions, old) \subseteq H
  <2>1. \A k \in NotifiableEvents(transitions, old) :
          \E j \in E : k = EventKey(transitions, j)
    BY DEF NotifiableEvents, Events
  <2> HIDE DEF E
  <2> QED
    BY <2>1
<1>3. IsFiniteSet(Notifiable)
  <2>1. IsFiniteSet(NotifiableEvents(transitions, old))
    <3> HIDE DEF H
    <3> QED
      BY <1>1, <1>2, FS_Subset
  <2> QED
    BY <2>1, FS_Union DEF Notifiable, EntriesInv
<1>4. ASSUME NEW j \in E
      PROVE  /\ EventKey(transitions, j) \in Keys
             /\ \E o \in seen : o.id = EventKey(transitions, j).trigger
  <2>1. /\ j \in Nat /\ transitions[j] \in Transition
        /\ transitions[j].type # "ROUTE_CHANGED"
        /\ transitions[j].trigger \in Int
        /\ \E o \in seen : o.id = transitions[j].trigger
    BY HistoryIs DEF Events
  <2>2. transitions[j].type \in {"MRZ_ACTIVATED", "MRZ_MIGRATED"}
    BY <2>1 DEF Transition
  <2> QED
    BY <2>1, <2>2 DEF EventKey, Keys
<1>5. \A k \in entries : k \in Keys /\ \E o \in seen : o.id = k.trigger
  <2> SUFFICES ASSUME NEW k \in entries
               PROVE  k \in Keys /\ \E o \in seen : o.id = k.trigger
    OBVIOUS
  <2>1. PICK o \in seen, r \in Routes :
          k = [type |-> "MRZ_NEAR_MISS", route |-> r, trigger |-> o.id]
    BY DEF EntriesInv
  <2>2. o.id \in Int
    BY Parts, ObservationAssumption DEF StoreInv
  <2> QED
    BY <2>1, <2>2 DEF Keys
<1>6. \A k \in Notifiable : k \in entries \/ \E j \in E : k = EventKey(transitions, j)
  BY DEF Notifiable, NotifiableEvents, Events
<1> HIDE DEF E
<1>7. \A k \in Notifiable : k \in Keys /\ \E o \in seen : o.id = k.trigger
  BY <1>4, <1>5, <1>6
<1> QED
  BY <1>3, <1>4, <1>6, <1>7 DEF E

(* The rows stay what they are as long as the history only grows.          *)
LEMMA RowsKept ==
  ASSUME StoreInv, StoreInv', OldInv, RowsInv,
         seen \subseteq seen', Begins(transitions, transitions'),
         entries \subseteq entries', UNCHANGED <<old, outbox>>
  PROVE  /\ OldInv' /\ RowsInv'
         /\ \A j \in Events(transitions) :
              /\ j \in Events(transitions')
              /\ EventKey(transitions', j) = EventKey(transitions, j)
<1> DEFINE h == transitions
           u == transitions'
<1>1. /\ Len(h) \in Nat /\ DOMAIN h = 1..Len(h)
      /\ Len(u) \in Nat /\ DOMAIN u = 1..Len(u)
  BY HistoryIs, HistoryIsNext
<1>2. Deployed' = Deployed
  BY DEF Deployed
<1>3. Len(Deployed) \in Nat /\ DOMAIN Deployed = 1..Len(Deployed)
  <2>1. Deployed \in Seq(Transition)
    BY ReplayShape DEF Deployed, OldInv, Shape, ReplayState, Seed
  <2> QED
    BY <2>1
<1> DEFINE g == Deployed
<1>4. Begins(g, h)
  BY DEF OldInv
<1> HIDE DEF g
<1>5. Begins(g, u)
  <2> HIDE DEF h, u
  <2>1. \A i \in 1..Len(g) : i \in 1..Len(h)
    BY <1>1, <1>3, <1>4 DEF Begins, g
  <2> QED
    BY <1>1, <1>3, <1>4, <2>1 DEF Begins, h, u, g
<1>6. OldInv'
  BY <1>2, <1>5 DEF OldInv, g
<1>7. \A j \in DOMAIN h : j \in DOMAIN u /\ u[j] = h[j]
  BY <1>1 DEF Begins
<1>8. \A j \in DOMAIN h : EventKey(u, j) = EventKey(h, j)
  BY <1>7 DEF EventKey
<1>9. \A j \in Events(h) : j \in DOMAIN h /\ j \in Events(u)
  BY <1>7 DEF Events
<1>10. \A j \in Events(g) : j \in DOMAIN h
  BY <1>1, <1>3, <1>4 DEF Events, Begins, g
<1>11. RowsInv'
  <2>1. \A i \in DOMAIN outbox :
          outbox[i].key \in entries' \/ \E j \in Events(u) : outbox[i].key = EventKey(u, j)
    BY <1>8, <1>9 DEF RowsInv
  <2>2. \A j \in Events(g) : \E i \in DOMAIN outbox :
          outbox[i].key = EventKey(u, j) /\ ~outbox[i].deliverable
    BY <1>8, <1>10 DEF RowsInv, g
  <2> QED
    BY <1>2, <2>1, <2>2 DEF RowsInv, g
<1> QED
  BY <1>6, <1>8, <1>9, <1>11

LEMMA RowsInserted ==
  ASSUME StoreInv, EntriesInv, RowsInv, NEW K \in SUBSET Notifiable,
         outbox' = Inserted(outbox, K), UNCHANGED <<storeVars, old, entries>>
  PROVE  RowsInv' /\ KeysOf(outbox') = KeysOf(outbox) \cup K
<1>1. IsFiniteSet(K) /\ K \in SUBSET Keys
  BY NotifiableIs, FS_Subset
<1>2. outbox \in Seq(Row) /\ Distinct(outbox)
  BY DEF RowsInv
<1>3. /\ outbox' \in Seq(Row) /\ Distinct(outbox')
      /\ Begins(outbox, outbox')
      /\ \A i \in DOMAIN outbox' : outbox'[i].key \in KeysOf(outbox) \cup K
      /\ KeysOf(outbox') = KeysOf(outbox) \cup K
  BY <1>1, <1>2, InsertedRows
<1>4. transitions' = transitions /\ entries' = entries /\ Deployed' = Deployed
  BY DEF storeVars, Deployed
<1>5. \A k \in KeysOf(outbox) \cup K :
        k \in entries \/ \E j \in Events(transitions) : k = EventKey(transitions, j)
  BY NotifiableIs DEF KeysOf, RowsInv
<1>6. \A i \in DOMAIN outbox : i \in DOMAIN outbox' /\ outbox'[i] = outbox[i]
  BY <1>2, <1>3 DEF Begins
<1>7. \A j \in Events(Deployed) : \E i \in DOMAIN outbox' :
        outbox'[i].key = EventKey(transitions, j) /\ ~outbox'[i].deliverable
  BY <1>6 DEF RowsInv
<1> QED
  BY <1>3, <1>4, <1>5, <1>7 DEF RowsInv
------------------------------------------------------------------------------
(* Deployment: the baseline records every event of the history.            *)
LEMMA Initially == OutboxInit => OutboxInv
<1> SUFFICES ASSUME OutboxInit PROVE OutboxInv
  OBVIOUS
<1> DEFINE r == Replay(old, NoMRZ)
<1>1. /\ seen = old /\ promotion = NoMRZ /\ active = r.active /\ transitions = r.transitions
      /\ outbox = Baseline(transitions) /\ entries = {} /\ old \in Deployments
  BY DEF OutboxInit
<1>2. old \in Evidence
  BY <1>1, DeploymentAssumption DEF Evidence, FiniteSubsetsOf
<1>3. r = Result(active, transitions)
  BY <1>1, <1>2, ReplayShape DEF Shape, Seed
<1>4. StoreInv
  BY <1>1, <1>2, <1>3 DEF StoreInv, Seed
<1>5. OldInv
  BY <1>1, <1>2, <1>4, HistoryIs DEF OldInv, Deployed, Begins
<1>6. EntriesInv
  BY <1>1, FS_EmptySet DEF EntriesInv
<1> HIDE DEF r
<1> DEFINE E == Events(transitions)
           row(j) == [key |-> EventKey(transitions, j), deliverable |-> FALSE]
           f == [j \in E |-> row(j)]
           R == {row(j) : j \in E}
<1>7. outbox = SetToSeq(R)
  BY <1>1 DEF Baseline, Events
<1>8. IsFiniteSet(R)
  <2>1. IsFiniteSet(1..Len(transitions))
    BY <1>4, HistoryIs, FS_Interval
  <2>2. IsFiniteSet(E)
    BY <2>1, <1>4, HistoryIs, FS_Subset DEF Events
  <2>3. R = {f[j] : j \in E}
    OBVIOUS
  <2> HIDE DEF E, R
  <2> QED
    BY <2>2, <2>3, ImageIsFinite
<1>9. /\ outbox \in Seq(R)
      /\ \A x \in R : \E i \in DOMAIN outbox : outbox[i] = x
      /\ \A i, j \in DOMAIN outbox : outbox[i] = outbox[j] => i = j
  BY <1>7, <1>8, SetToSeqIs
<1>10. \A j \in E : row(j) \in Row
  BY <1>4, <1>6, NotifiableIs DEF Row
<1>11. \A j : row(j).key = EventKey(transitions, j) /\ ~row(j).deliverable
  OBVIOUS
<1> HIDE DEF row
<1>12. R \subseteq Row
  BY <1>10
<1>13. \A i \in DOMAIN outbox : \E j \in E : outbox[i] = row(j)
  BY <1>9
<1>14. \A j \in E : \E i \in DOMAIN outbox : outbox[i] = row(j)
  BY <1>9
<1>15. \A i, j \in E : EventKey(transitions, i) = EventKey(transitions, j) => i = j
  BY DEF EventKey
<1>16. Distinct(outbox)
  <2> SUFFICES ASSUME NEW i \in DOMAIN outbox, NEW j \in DOMAIN outbox,
                      outbox[i].key = outbox[j].key
               PROVE  i = j
    BY DEF Distinct
  <2>1. PICK m \in E, n \in E : outbox[i] = row(m) /\ outbox[j] = row(n)
    BY <1>13
  <2>2. m = n
    BY <2>1, <1>11, <1>15
  <2> QED
    BY <2>1, <2>2, <1>9
<1>17. Deployed = transitions
  BY <1>1 DEF Deployed, r
<1> HIDE DEF R
<1>18. outbox \in Seq(Row)
  BY <1>9, <1>12
<1>19. RowsInv
  BY <1>11, <1>13, <1>14, <1>16, <1>17, <1>18 DEF RowsInv
<1>20. NothingIsForgotten
  <2> SUFFICES ASSUME NEW k \in Notifiable PROVE k \in KeysOf(outbox)
    BY DEF NothingIsForgotten
  <2>1. PICK j \in E : k = EventKey(transitions, j)
    BY <1>1, <1>4, <1>6, NotifiableIs
  <2>2. PICK i \in DOMAIN outbox : outbox[i] = row(j)
    BY <1>14
  <2> QED
    BY <2>1, <2>2, <1>11 DEF KeysOf
<1> QED
  BY <1>4, <1>5, <1>6, <1>19, <1>20 DEF OutboxInv

(* A webhook: what it adds to the history and to the entries is its own,   *)
(* and its pass is scheduled, or the answer failed.                        *)
LEMMA WebhookKeeps ==
  ASSUME OutboxInv, Late = {}, NEW o \in Observation, Webhook(o)
  PROVE  OutboxInv'
<1>1. /\ Ingest(o) /\ \A p \in seen : Before(p, o)
      /\ seen' = seen \cup {o}
      /\ entries' = entries \cup Entered(o)
      /\ UNCHANGED <<old, promotedOver, outbox, up>>
      /\ up
  BY DEF Webhook, Ingest
<1>2. StoreInv'
  BY <1>1, StoreStep DEF OutboxInv, StoreNext
<1>3. /\ Begins(transitions, transitions')
      /\ \A i \in Len(transitions) + 1 .. Len(transitions') :
           transitions'[i].trigger = o.id
  BY <1>1, InOrderExtends DEF OutboxInv
<1>4. \A k \in Entered(o) : \E r \in Routes :
        k = [type |-> "MRZ_NEAR_MISS", route |-> r, trigger |-> o.id]
  <2>1. \A c \in NearMisses(seen') : c.route \in Routes
    BY <1>2, Parts, NearMissContract DEF StoreInv, IsCandidate
  <2> QED
    BY <2>1 DEF Entered, EntryKey
<1>5. EntriesInv'
  <2> DEFINE f == [r \in Routes |-> [type |-> "MRZ_NEAR_MISS", route |-> r, trigger |-> o.id]]
             F == {f[r] : r \in Routes}
  <2>1. IsFiniteSet(Routes)
    <3>1. IsFiniteSet({"BTD"}) /\ IsFiniteSet({"STR"}) /\ Routes = {"BTD"} \cup {"STR"}
      BY FS_Singleton DEF Routes
    <3> QED
      BY <3>1, FS_Union
  <2>2. IsFiniteSet(F)
    BY <2>1, ImageIsFinite
  <2>3. Entered(o) \subseteq F
    BY <1>4
  <2> HIDE DEF F
  <2>4. IsFiniteSet(Entered(o))
    BY <2>2, <2>3, FS_Subset
  <2>5. IsFiniteSet(entries')
    BY <1>1, <2>4, FS_Union DEF OutboxInv, EntriesInv
  <2> QED
    BY <1>1, <1>4, <2>5 DEF OutboxInv, EntriesInv
<1>6. /\ OldInv' /\ RowsInv'
      /\ \A j \in Events(transitions) : EventKey(transitions', j) = EventKey(transitions, j)
  BY <1>1, <1>2, <1>3, RowsKept DEF OutboxInv
<1>7. \A k \in Notifiable' : k \in Notifiable \/ k.trigger = o.id
  <2> SUFFICES ASSUME NEW k \in Notifiable' PROVE k \in Notifiable \/ k.trigger = o.id
    OBVIOUS
  <2>1. CASE k \in entries'
    BY <2>1, <1>1, <1>4 DEF Notifiable
  <2>2. CASE k \in NotifiableEvents(transitions', old)
    <3>1. PICK i \in DOMAIN transitions' :
            /\ k = EventKey(transitions', i)
            /\ \/ transitions'[i].type = "MRZ_ACTIVATED"
               \/ /\ transitions'[i].type = "MRZ_MIGRATED"
                  /\ \A x \in old : x.id # transitions'[i].trigger
      BY <2>2 DEF NotifiableEvents
    <3>2. Len(transitions) \in Nat /\ DOMAIN transitions = 1..Len(transitions)
      BY HistoryIs DEF OutboxInv
    <3>3. (Len(transitions) \in Nat /\ DOMAIN transitions = 1..Len(transitions))'
      BY <1>2, HistoryIsNext
    <3>4. CASE i \in 1..Len(transitions)
      <4>1. transitions'[i] = transitions[i]
        BY <1>3, <3>4 DEF Begins
      <4>2. k = EventKey(transitions, i)
        BY <3>1, <4>1 DEF EventKey
      <4> QED
        BY <3>1, <3>2, <3>4, <4>1, <4>2 DEF Notifiable, NotifiableEvents
    <3>5. CASE i \in Len(transitions) + 1 .. Len(transitions')
      BY <1>3, <3>1, <3>5 DEF EventKey
    <3> QED
      BY <3>2, <3>3, <3>4, <3>5
  <2> QED
    BY <1>1, <2>1, <2>2 DEF Notifiable
<1>8. o.id \in due' \cup failed' /\ due \subseteq due' /\ failed \subseteq failed'
  BY DEF Webhook, Schedule
<1>9. NothingIsForgotten'
  <2>1. KeysOf(outbox') = KeysOf(outbox)
    BY <1>1
  <2> QED
    BY <1>1, <1>7, <1>8, <2>1 DEF OutboxInv, NothingIsForgotten
<1> QED
  BY <1>2, <1>5, <1>6, <1>9 DEF OutboxInv

(* A promotion.  The history was empty; its activation is the promotion's, *)
(* whose pass is scheduled, and its migrations are to stored evidence.     *)
LEMMA PromotionKeeps ==
  ASSUME OutboxInv, Promote, promotedOver' = seen, Schedule(promotion'.trigger),
         UNCHANGED <<old, entries, outbox, up>>
  PROVE  OutboxInv'
<1>1. seen' = seen /\ active = NoMRZ
  BY DEF Promote
<1>2. StoreInv'
  BY StoreStep DEF OutboxInv, StoreNext
<1>3. transitions = <<>>
  BY <1>1, HistoryIs DEF OutboxInv
<1>4. Begins(transitions, transitions')
  BY <1>2, <1>3, HistoryIsNext DEF Begins
<1>5. OldInv' /\ RowsInv'
  BY <1>1, <1>2, <1>4, RowsKept DEF OutboxInv
<1>6. EntriesInv'
  BY <1>1 DEF OutboxInv, EntriesInv
<1>7. /\ transitions'[1].trigger = promotion'.trigger
      /\ \A i \in 2..Len(transitions') : \E o \in seen : o.id = transitions'[i].trigger
  <2>1. TakesEffect
    BY PromotionEffect DEF OutboxInv
  <2>2. PICK t \in seen :
          /\ t.id = promotion'.trigger
          /\ transitions'[1] = [type |-> "MRZ_ACTIVATED", trigger |-> t.id,
                                old |-> NoMRZ, new |-> promotion']
          /\ \A i \in 2..Len(transitions') : \E o \in seen : o.id = transitions'[i].trigger
    BY <2>1 DEF TakesEffect
  <2> QED
    BY <2>2
<1>8. ASSUME NEW k \in Notifiable'
      PROVE  \/ k \in entries
             \/ k.trigger = promotion'.trigger
             \/ k.type = "MRZ_MIGRATED" /\ \E o \in seen : o.id = k.trigger
  <2> SUFFICES ASSUME k \notin entries
               PROVE  \/ k.trigger = promotion'.trigger
                      \/ k.type = "MRZ_MIGRATED" /\ \E o \in seen : o.id = k.trigger
    OBVIOUS
  <2>1. PICK i \in DOMAIN transitions' :
          /\ k = EventKey(transitions', i)
          /\ transitions'[i].type = "MRZ_ACTIVATED" \/ transitions'[i].type = "MRZ_MIGRATED"
    BY DEF Notifiable, NotifiableEvents
  <2>2. i = 1 \/ (i \in 2..Len(transitions') /\ transitions'[i].type = "MRZ_MIGRATED")
    BY <1>2, <2>1, HistoryIsNext
  <2> QED
    BY <1>7, <2>1, <2>2 DEF EventKey
<1>9. /\ promotion'.trigger \in due' \cup failed'
      /\ due \subseteq due' /\ failed \subseteq failed'
  BY DEF Schedule
<1>10. \A k \in entries : k \in Notifiable /\ k.type # "MRZ_MIGRATED"
  BY DEF OutboxInv, EntriesInv, Notifiable
<1>11. NothingIsForgotten'
  <2>1. KeysOf(outbox') = KeysOf(outbox) /\ up' = up /\ promotedOver' = seen
    OBVIOUS
  <2> QED
    BY <1>8, <1>9, <1>10, <2>1 DEF OutboxInv, NothingIsForgotten
<1> QED
  BY <1>2, <1>5, <1>6, <1>11 DEF OutboxInv

(* Without a step of the store.                                            *)
LEMMA OthersKeep ==
  ASSUME OutboxInv, UNCHANGED <<seen, active, transitions, promotion, confirmation>>,
         UNCHANGED <<old, entries, promotedOver>>,
         \/ UNCHANGED outbox
         \/ \E K \in SUBSET Notifiable : outbox' = Inserted(outbox, K) /\ UNCHANGED reviewed,
         \A k \in Notifiable \ KeysOf(outbox') :
           (~up \/ k.trigger \in due \cup failed) => ~up' \/ k.trigger \in due' \cup failed'
  PROVE  OutboxInv'
<1>1. StoreInv' /\ OldInv' /\ EntriesInv'
  BY DEF OutboxInv, StoreInv, OldInv, Deployed, EntriesInv
<1>2. RowsInv' /\ KeysOf(outbox) \subseteq KeysOf(outbox')
  <2>1. CASE UNCHANGED outbox
    BY <2>1 DEF OutboxInv, RowsInv, Deployed
  <2>2. CASE \E K \in SUBSET Notifiable : outbox' = Inserted(outbox, K) /\ UNCHANGED reviewed
    <3>1. UNCHANGED storeVars
      BY <2>2 DEF storeVars
    <3> QED
      BY <2>2, <3>1, RowsInserted DEF OutboxInv
  <2> QED
    BY <2>1, <2>2
<1>3. Notifiable' = Notifiable
  BY DEF Notifiable
<1>4. NothingIsForgotten'
  BY <1>2, <1>3 DEF OutboxInv, NothingIsForgotten
<1> QED
  BY <1>1, <1>2, <1>4 DEF OutboxInv

LEMMA Invariance ==
  ASSUME OutboxInv, Late = {}, [OutboxNext]_vars_
  PROVE  OutboxInv'
<1> USE DEF storeVars
<1>1. CASE UNCHANGED vars_
  BY <1>1, OthersKeep DEF vars_, outboxVars
<1>2. ASSUME NEW o \in Observation, Webhook(o) PROVE OutboxInv'
  BY <1>2, WebhookKeeps
<1>3. ASSUME NEW o \in Observation, DuplicateWebhook(o) PROVE OutboxInv'
  BY <1>3, OthersKeep DEF DuplicateWebhook, IngestDuplicate
<1>4. CASE PromoteCommand
  <2>1. CASE Promote
    <3>1. promotedOver' = seen
      BY <1>4, <2>1 DEF PromoteCommand, Promote, PromoteRejected
    <3> QED
      BY <1>4, <2>1, <3>1, PromotionKeeps DEF PromoteCommand
  <2>2. CASE ~Promote
    BY <1>4, <2>2, OthersKeep DEF PromoteCommand, PromoteRejected, Schedule
  <2> QED
    BY <2>1, <2>2
<1>5. CASE Look
  BY <1>5, OthersKeep DEF Look, Review, outboxVars
<1>6. ASSUME NEW o \in Observation, Pass(o.id) PROVE OutboxInv'
  <2> DEFINE K == {k \in Notifiable : k.trigger = o.id}
  <2>1. /\ outbox' = Inserted(outbox, K) /\ due' = due \ {o.id}
        /\ UNCHANGED <<storeVars, old, promotedOver, entries, failed, up, faults>>
    BY <1>6 DEF Pass
  <2>2. K \in SUBSET Notifiable
    OBVIOUS
  <2>3. K \subseteq KeysOf(outbox')
    BY <2>1, <2>2, RowsInserted DEF OutboxInv
  <2>4. \A k \in Notifiable \ KeysOf(outbox') : k.trigger # o.id
    BY <2>3
  <2> HIDE DEF K
  <2> QED
    BY <2>1, <2>2, <2>4, OthersKeep
<1>7. ASSUME NEW o \in Observation, PassFails(o.id) PROVE OutboxInv'
  BY <1>7, OthersKeep DEF PassFails
<1>8. CASE Crash
  BY <1>8, OthersKeep DEF Crash
<1>9. CASE Restart
  <2>1. /\ outbox' = Inserted(outbox, Notifiable)
        /\ UNCHANGED <<storeVars, old, promotedOver, entries, due, failed, faults>>
    BY <1>9 DEF Restart
  <2>2. Notifiable \subseteq KeysOf(outbox')
    BY <2>1, RowsInserted DEF OutboxInv
  <2>3. Notifiable \in SUBSET Notifiable
    OBVIOUS
  <2> QED
    BY <2>1, <2>2, <2>3, OthersKeep
<1>10. CASE RestartFails
  <2>1. \A k \in Notifiable : k.trigger \in {o.id : o \in seen}
    BY NotifiableIs DEF OutboxInv
  <2> QED
    BY <1>10, <2>1, OthersKeep DEF RestartFails
<1> QED
  BY <1>1, <1>2, <1>3, <1>4, <1>5, <1>6, <1>7, <1>8, <1>9, <1>10 DEF OutboxNext

LEMMA Invariant == Late = {} => (OutboxSpec => []OutboxInv)
<1> SUFFICES ASSUME Late = {} PROVE OutboxSpec => []OutboxInv
  OBVIOUS
<1>1. OutboxInv /\ [OutboxNext]_vars_ => OutboxInv'
  BY Invariance
<1> QED
  BY <1>1, Initially, PTL DEF OutboxSpec
------------------------------------------------------------------------------
(* What an operator would call the same event has the same key.            *)
LEMMA SameEventSameKey ==
  ASSUME OutboxInv, NEW k \in KeysOf(outbox), NEW l \in KeysOf(outbox), SameEvent(k, l)
  PROVE  k = l
<1>1. \A x \in KeysOf(outbox) :
        \/ x \in entries
        \/ \E j \in Events(transitions) : x = EventKey(transitions, j)
  BY DEF KeysOf, OutboxInv, RowsInv
<1>2. \A x \in entries :
        /\ x.type = "MRZ_NEAR_MISS"
        /\ x = [type |-> "MRZ_NEAR_MISS", route |-> x.route, trigger |-> x.trigger]
  BY DEF OutboxInv, EntriesInv
<1>3. \A j \in Events(transitions) :
        /\ EventKey(transitions, j).type # "MRZ_NEAR_MISS"
        /\ EventKey(transitions, j).trigger = transitions[j].trigger
  <2>1. \A j \in Events(transitions) : transitions[j] \in Transition
    BY HistoryIs DEF OutboxInv, Events
  <2>2. \A x \in Transition : x.type # "MRZ_NEAR_MISS"
    BY DEF Transition
  <2> QED
    BY <2>1, <2>2 DEF EventKey
<1>4. CASE k \in entries
  <2>1. l \in entries
    BY <1>1, <1>2, <1>3, <1>4 DEF SameEvent
  <2> QED
    BY <1>2, <1>4, <2>1 DEF SameEvent
<1>5. CASE k \notin entries
  <2>1. PICK i \in Events(transitions) : k = EventKey(transitions, i)
    BY <1>1, <1>5
  <2>2. PICK j \in Events(transitions) : l = EventKey(transitions, j)
    BY <1>1, <1>2, <1>3, <2>1 DEF SameEvent
  <2>3. transitions[i].trigger = transitions[j].trigger
    BY <1>3, <2>1, <2>2 DEF SameEvent
  <2>4. i = j
    BY <2>3, HistoryIs DEF OutboxInv, OneEach
  <2> QED
    BY <2>1, <2>2, <2>4
<1> QED
  BY <1>4, <1>5

LEMMA DeployedIsPast ==
  ASSUME OutboxInv
  PROVE  \A j \in DOMAIN Deployed : j \in DOMAIN transitions /\ Deployed[j] = transitions[j]
<1>1. Len(Deployed) \in Nat /\ DOMAIN Deployed = 1..Len(Deployed)
  <2>1. Deployed \in Seq(Transition)
    BY ReplayShape DEF Deployed, OutboxInv, OldInv, Shape, ReplayState, Seed
  <2> QED
    BY <2>1
<1>2. Begins(Deployed, transitions)
  BY DEF OutboxInv, OldInv
<1> DEFINE g == Deployed
<1> HIDE DEF g
<1>3. \A j \in DOMAIN g : j \in DOMAIN transitions /\ g[j] = transitions[j]
  BY <1>1, <1>2, HistoryIs DEF OutboxInv, Begins, g
<1> QED
  BY <1>3 DEF g

(* AnnouncedOnce: with webhooks in order, no activation, migration or      *)
(* entry ever has two rows, however often its pass runs, fails or is       *)
(* repeated, and however often the process starts again.                   *)
THEOREM AnnouncedOnceTheorem == Late = {} => (OutboxSpec => []AnnouncedOnce)
<1> SUFFICES ASSUME Late = {} PROVE OutboxSpec => []AnnouncedOnce
  OBVIOUS
<1>1. OutboxInv => AnnouncedOnce
  <2> SUFFICES ASSUME OutboxInv, NEW i \in DOMAIN outbox, NEW j \in DOMAIN outbox,
                      SameEvent(outbox[i].key, outbox[j].key)
               PROVE  i = j
    BY DEF AnnouncedOnce
  <2>1. outbox[i].key = outbox[j].key
    BY SameEventSameKey DEF KeysOf
  <2> QED
    BY <2>1 DEF OutboxInv, RowsInv, Distinct
<1> QED
  BY <1>1, Invariant, PTL

(* DeploymentIsSilent: with webhooks in order, what the history contained  *)
(* when notifications were introduced never gets a row to be delivered.    *)
THEOREM DeploymentIsSilentTheorem == Late = {} => (OutboxSpec => []DeploymentIsSilent)
<1> SUFFICES ASSUME Late = {} PROVE OutboxSpec => []DeploymentIsSilent
  OBVIOUS
<1>1. OutboxInv => DeploymentIsSilent
  <2> SUFFICES ASSUME OutboxInv, NEW i \in DOMAIN outbox, outbox[i].deliverable,
                      NEW j \in DOMAIN Deployed,
                      SameEvent(outbox[i].key, EventKey(Deployed, j))
               PROVE  FALSE
    BY DEF DeploymentIsSilent, Deployed
  <2>1. /\ j \in DOMAIN transitions /\ Deployed[j] = transitions[j]
    BY DeployedIsPast DEF OutboxInv
  <2>2. EventKey(Deployed, j) = EventKey(transitions, j)
    BY <2>1 DEF EventKey
  <2>3. outbox[i].key \in Keys
    <3>1. outbox[i] \in Row
      BY DEF OutboxInv, RowsInv
    <3> QED
      BY <3>1 DEF Row
  <2>4. transitions[j].type # "ROUTE_CHANGED"
    BY <2>2, <2>3 DEF SameEvent, EventKey, Keys
  <2>5. j \in Events(Deployed)
    BY <2>1, <2>4 DEF Events
  <2>6. PICK m \in DOMAIN outbox :
          outbox[m].key = EventKey(transitions, j) /\ ~outbox[m].deliverable
    BY <2>5 DEF OutboxInv, RowsInv
  <2>7. outbox[i].key = outbox[m].key
    BY <2>2, <2>6, SameEventSameKey DEF KeysOf
  <2> QED
    BY <2>6, <2>7 DEF OutboxInv, RowsInv, Distinct
<1> QED
  BY <1>1, Invariant, PTL

(* NothingIsForgotten: with webhooks in order, whatever is notifiable has  *)
(* a row, a scheduled or failed pass, or waits for the next start, but for *)
(* migrations that a promotion's replay takes to evidence stored before.   *)
THEOREM NothingIsForgottenTheorem == Late = {} => (OutboxSpec => []NothingIsForgotten)
<1> SUFFICES ASSUME Late = {} PROVE OutboxSpec => []NothingIsForgotten
  OBVIOUS
<1>1. OutboxInv => NothingIsForgotten
  BY DEF OutboxInv
<1> QED
  BY <1>1, Invariant, PTL
==============================================================================
